---- MODULE Spec2Model ----
(***************************************************************************)
(* A model of the VermilionRC process fabric: typed pipe / control         *)
(* endpoints and their descriptor lifecycle (pipe.rs, control.rs), the     *)
(* message layer that carries an envelope and at most one descriptor over  *)
(* a control socket (msg.rs), and the Init / Ipc wiring (bin/vermilion.rs, *)
(* procs/ipc.rs).                                                          *)
(*                                                                         *)
(* The specifications share the variables; the first three are:           *)
(*   SpecEnd  one process that creates, forgets, closes and drops          *)
(*            endpoints; the descriptor table is the kernel's.             *)
(*   SpecMsg  a sending and a receiving process joined by one control      *)
(*            pair, driving prepare_message / send_msg / recv_msg / take_* *)
(*            / drop.                                                      *)
(*   Spec     Init wiring the root roles and the Ipc's handshake.          *)
(***************************************************************************)
EXTENDS Integers, Sequences, FiniteSets, TLC

(* ---------------------------------------------------------------------- *)
(* Bounds of the model                                                     *)
(* ---------------------------------------------------------------------- *)

\* Descriptor numbers are 0..MaxFd in every process.
MaxFd == 17
\* Endpoint values the endpoint harness may create.
MaxEnds == 2
\* close() calls the harness makes on one endpoint.
MaxCloseCalls == 2
\* Messages the message harness sends.
MaxSends == 2
\* Messages the senders of the Ipc harness send in total.
MaxDeliver == 5
\* Segments queued on one control socket of the Ipc harness.
MaxQueue == 2

(* ---------------------------------------------------------------------- *)
(* Program constants                                                       *)
(* ---------------------------------------------------------------------- *)

NULL == -1
STDIN == 0
STDOUT == 1
STDERR == 2
\* The iterations of the loop of Ipc::run.
IpcTurns == 60
\* u8::MAX, the largest number max-starts may be.
U8Max == 255

(* ---------------------------------------------------------------------- *)
(* State                                                                   *)
(* ---------------------------------------------------------------------- *)

VARIABLES
    fdtab,   \* [process -> [0..MaxFd -> open file object, or Closed]]
    ends,    \* [1..MaxEnds -> PipeEnd / CtlEnd value of the parent process]
    last,    \* the operation the last step performed and the close(2) calls it issued
    chan,    \* [control socket -> the segments queued in the kernel, oldest first]
    msgs,    \* [process -> the Message value the process holds, if any]
    held,    \* the asynchronous ends (AsyncPipeEnd / AsyncCtlEnd) processes own
    sentLog, \* history: the envelopes send_msg has sent, in order
    recvLog, \* history: the envelopes recv_msg has returned, in order
    pc,      \* [process -> where it is: "none" before it is spawned]
    kids,    \* init's child handles: [role -> what new_process returned, as init holds it]
    reg,     \* what the Ipc has retained from the handshake, and the error that ended it
    exits,   \* history: the root roles that have ended by themselves, in order
    sup,     \* the Supervisor: its arguments, its loop counter, the payload it runs
    logs,    \* the Logger's forwarding tasks, the pipes they read, the lines printed
    lead,    \* the Leader: its listening socket's path, its command channel
    cli      \* one run of main: the command line, where it is, the exit code

vars ==
    <<fdtab, ends, last, chan, msgs, held, sentLog, recvLog, pc, kids, reg, exits, sup,
      logs, lead, cli>>

\* F applied to the value of v, v evaluated once.
With(v, F(_)) == CHOOSE r \in {F(x) : x \in {v}} : TRUE

\* Option<T>: None is the empty sequence, Some(x) the sequence of x alone.
None == <<>>

Some(x) == <<x>>

(* ---------------------------------------------------------------------- *)
(* The kernel's descriptor table                                           *)
(* ---------------------------------------------------------------------- *)

\* What a descriptor number refers to: an end of a pipe or of a control
\* socket pair (ch names the channel), a standard stream, or nothing.
Obj(kind, dir, ch) == [kind |-> kind, dir |-> dir, ch |-> ch]

Closed == Obj("closed", "-", 0)

StdObj == Obj("std", "-", 0)

FdNums == 0..MaxFd

\* The table of a freshly exec'ed process: the three standard streams.
StdTable == [n \in FdNums |-> IF n <= STDERR THEN StdObj ELSE Closed]

FreeFds(t) == {n \in FdNums : t[n] = Closed}

\* pipe(2) / socketpair(2) / SCM_RIGHTS install at the lowest free number.
LowestFree(t) == CHOOSE n \in FreeFds(t) : \A m \in FreeFds(t) : n <= m

\* close(2): closes the number if it is open, fails with EBADF (no change) otherwise.
OsClose(t, n) == IF n \in FdNums /\ t[n] # Closed THEN [t EXCEPT ![n] = Closed] ELSE t

RECURSIVE OsCloseAll(_, _)
OsCloseAll(t, S) ==
    IF S = {} THEN t
    ELSE LET n == CHOOSE x \in S : TRUE IN OsCloseAll(OsClose(t, n), S \ {n})

OpenFds(t) == {n \in FdNums : t[n] # Closed}

\* The descriptor SCM_RIGHTS installs in the receiver refers to the sender's
\* open file and does not carry the close-on-exec flag.
Received(obj) == IF obj.kind = "cpipe" THEN [obj EXCEPT !.kind = "pipe"] ELSE obj

\* What a child starts with: the parent's descriptors that are not
\* close-on-exec. The pipes std::process makes for a child's piped stdio
\* (kind "cpipe") are close-on-exec; pipe(2) and socketpair(2) as Pipe::new
\* and Control::new call them are not.
Inherited(t) == [n \in FdNums |-> IF t[n].kind = "cpipe" THEN Closed ELSE t[n]]

\* Objects installed one after another, each at the lowest free number: the
\* table afterwards and the numbers given.
RECURSIVE AllocSeq(_, _)
AllocSeq(t, objs) ==
    IF objs = <<>> THEN [t |-> t, fds |-> <<>>]
    ELSE With(LowestFree(t), LAMBDA n :
         With(AllocSeq([t EXCEPT ![n] = Head(objs)], Tail(objs)), LAMBDA rest :
              [t |-> rest.t, fds |-> <<n>> \o rest.fds]))

(* ---------------------------------------------------------------------- *)
(* PipeEnd / CtlEnd (pipe.rs, control.rs)                                  *)
(* ---------------------------------------------------------------------- *)

EndIds == 1..MaxEnds

\* st: "none" (no value in the slot), "live", or "dropped". forgot and closes
\* are history: whether forget() was called, and how many close(2) calls the
\* value has issued on its descriptor.
NoEnd == [st |-> "none", kind |-> "pipe", dir |-> "Read", raw_fd |-> NULL,
          forgot |-> FALSE, closes |-> 0]

\* from_raw_fd: the value takes the number as given.
from_raw_fd(kind, dir, n) ==
    [st |-> "live", kind |-> kind, dir |-> dir, raw_fd |-> n,
     forgot |-> FALSE, closes |-> 0]

\* PipeEnd::forget: the stored number becomes -1.
\* A forget that leaves the number in place.
PipeEnd_forget_keeps(e) == e

PipeEnd_forget(e) == [e EXCEPT !.raw_fd = NULL]

\* CtlEnd::forget.
CtlEnd_forget(e) == [e EXCEPT !.raw_fd = NULL]

forget(e) == IF e.kind = "pipe" THEN PipeEnd_forget(e) ELSE CtlEnd_forget(e)

\* PipeEnd::close: the numbers close(2) is called on. The stored number is
\* left as it is.
PipeEnd_close(e) == IF e.raw_fd < 0 THEN {} ELSE {e.raw_fd}

\* CtlEnd::close.
CtlEnd_close(e) == IF e.raw_fd < 0 THEN {} ELSE {e.raw_fd}

close(e) == IF e.kind = "pipe" THEN PipeEnd_close(e) ELSE CtlEnd_close(e)

\* impl Drop for PipeEnd: the numbers close(2) is called on.
\* A drop that spares only the negative numbers.
PipeEnd_drop_std(e) == IF e.raw_fd < 0 THEN {} ELSE {e.raw_fd}

PipeEnd_drop(e) ==
    IF e.raw_fd \in STDIN..STDERR THEN {}
    ELSE IF e.raw_fd < 0 THEN {}
    ELSE {e.raw_fd}

\* A CtlEnd whose drop closes nothing.
CtlEnd_drop_none(e) == {}

\* impl Drop for CtlEnd.
CtlEnd_drop(e) ==
    IF e.raw_fd \in STDIN..STDERR THEN {}
    ELSE IF e.raw_fd < 0 THEN {}
    ELSE {e.raw_fd}

drop(e) == IF e.kind = "pipe" THEN PipeEnd_drop(e) ELSE CtlEnd_drop(e)

\* into_raw_fd: the number is handed out and the value forgets it.
into_raw_fd(e) == [fd |-> e.raw_fd, end |-> forget(e)]

(* ---------------------------------------------------------------------- *)
(* Message envelope and its wire form (msg.rs, procs/leader.rs)            *)
(* ---------------------------------------------------------------------- *)

\* The payload of a Command or CommandResponse kind; NoBody for the others.
Body(c, tt, tn, tv) == [c |-> c, tt |-> tt, tn |-> tn, tv |-> tv]

NoBody == Body("-", "-", "-", 0)

\* enum MessageKind, in declaration order.
MessageKinds ==
    <<"ReadPipeEnd", "WritePipeEnd", "ReadCtlEnd", "WriteCtlEnd",
      "Command", "CommandResponse">>

\* enum Command, in declaration order.
CommandNames == <<"Init", "Start", "Restart", "Stop", "Status", "List">>

\* enum Target, in declaration order.
TargetNames == <<"Name", "Pid">>

\* The length of the receive buffer of recv_msg.
RecvBufLen == 1024

\* The length of a name that is longer than the receive buffer.
LongNameLen == 1100

\* The strings put in an envelope, and the number of bytes of each; "long"
\* stands for a name of LongNameLen bytes.
Strings == <<"logger", "leader", "launcher", "ipc", "supervisor", "a", "b", "long">>

StrLen ==
    [logger |-> 6, leader |-> 6, launcher |-> 8, ipc |-> 3, supervisor |-> 10, a |-> 1,
     b |-> 1, long |-> LongNameLen]

IndexOf(seq, x) == CHOOSE i \in 1..Len(seq) : seq[i] = x

Kind(k, body) == [k |-> k, body |-> body]

EndKinds == {"ReadPipeEnd", "WritePipeEnd", "ReadCtlEnd", "WriteCtlEnd"}

\* The match arm of send_msg and recv_msg that names the kinds carrying a
\* descriptor.
IsEndKind(kind) == kind.k \in EndKinds

CommandKinds == {"Command", "CommandResponse"}

\* The name of an envelope's kind, "-" when it has none.
KindOf(data) == IF data.kind = None THEN "-" ELSE data.kind[1].k

\* Metadata::new.
Metadata(proc_name, pid, source_pid, target_pid) ==
    [proc_name |-> proc_name, pid |-> pid, source_pid |-> source_pid,
     target_pid |-> target_pid]

\* struct MessageData.
MessageData(meta, kind) == [meta |-> meta, kind |-> kind]

\* bincode::serialize(&self.data), one token per encoded field: an Option is
\* its tag then its value, an enum its variant index then its fields, a
\* string its code.
ser_opt(o) == IF o = None THEN <<0>> ELSE <<1, o[1]>>

ser_opt_str(o) == IF o = None THEN <<0>> ELSE <<1, IndexOf(Strings, o[1])>>

ser_target(b) ==
    IF b.tt = "Name" THEN <<IndexOf(TargetNames, "Name") - 1, IndexOf(Strings, b.tn)>>
    ELSE <<IndexOf(TargetNames, "Pid") - 1, b.tv>>

ser_command(b) ==
    <<IndexOf(CommandNames, b.c) - 1>> \o (IF b.c = "List" THEN <<>> ELSE ser_target(b))

ser_response(b) == <<0, IndexOf(Strings, b.tn), b.tv>>

ser_kind(kind) ==
    <<IndexOf(MessageKinds, kind.k) - 1>> \o
    (IF kind.k = "Command" THEN ser_command(kind.body)
     ELSE IF kind.k = "CommandResponse" THEN ser_response(kind.body)
     ELSE <<>>)

serialize(data) ==
    ser_opt_str(data.meta.proc_name) \o ser_opt(data.meta.pid)
    \o <<data.meta.source_pid>> \o ser_opt(data.meta.target_pid)
    \o (IF data.kind = None THEN <<0>> ELSE <<1>> \o ser_kind(data.kind[1]))

\* The bytes of bincode's encoding: one for the tag of an Option, four for
\* the variant of an enum, for an i32 and for a u32, eight for the length of a
\* string before its bytes.
len_opt(o) == IF o = None THEN 1 ELSE 1 + 4

len_str(x) == 8 + StrLen[x]

len_body(kind) ==
    IF kind.k = "Command"
    THEN 4 + (IF kind.body.c = "List" THEN 0
              ELSE 4 + (IF kind.body.tt = "Name" THEN len_str(kind.body.tn) ELSE 4))
    ELSE IF kind.k = "CommandResponse" THEN 4 + len_str(kind.body.tn) + 4
    ELSE 0

serialized_size(data) ==
    (IF data.meta.proc_name = None THEN 1 ELSE 1 + len_str(data.meta.proc_name[1]))
    + len_opt(data.meta.pid) + 4 + len_opt(data.meta.target_pid)
    + (IF data.kind = None THEN 1 ELSE 1 + 4 + len_body(data.kind[1]))

\* The receive buffer is zero filled: reading past what arrived reads zeros.
Tok(buf, i) == IF i <= Len(buf) THEN buf[i] ELSE 0

\* Each decoder returns the value, the next position, and whether it decoded.
Dec(v, n, ok) == [v |-> v, n |-> n, ok |-> ok]

de_opt(buf, i) ==
    IF Tok(buf, i) = 0 THEN Dec(None, i + 1, TRUE)
    ELSE Dec(Some(Tok(buf, i + 1)), i + 2, Tok(buf, i) = 1)

de_str(buf, i) ==
    IF Tok(buf, i) \in 1..Len(Strings) THEN Dec(Strings[Tok(buf, i)], i + 1, TRUE)
    ELSE Dec("-", i + 1, FALSE)

de_opt_str(buf, i) ==
    IF Tok(buf, i) = 0 THEN Dec(None, i + 1, TRUE)
    ELSE LET s == de_str(buf, i + 1) IN Dec(Some(s.v), s.n, s.ok /\ Tok(buf, i) = 1)

de_target(buf, i, c) ==
    IF Tok(buf, i) = 0
    THEN LET s == de_str(buf, i + 1) IN Dec(Body(c, "Name", s.v, 0), s.n, s.ok)
    ELSE Dec(Body(c, "Pid", "-", Tok(buf, i + 1)), i + 2, Tok(buf, i) = 1)

de_command(buf, i) ==
    IF Tok(buf, i) + 1 \notin 1..Len(CommandNames) THEN Dec(NoBody, i + 1, FALSE)
    ELSE LET c == CommandNames[Tok(buf, i) + 1] IN
         IF c = "List" THEN Dec(Body("List", "-", "-", 0), i + 1, TRUE)
         ELSE de_target(buf, i + 1, c)

de_response(buf, i) ==
    LET s == de_str(buf, i + 1) IN
    Dec(Body("ListItem", "-", s.v, Tok(buf, s.n)), s.n + 1, s.ok /\ Tok(buf, i) = 0)

de_kind(buf, i) ==
    IF Tok(buf, i) + 1 \notin 1..Len(MessageKinds) THEN Dec(Kind("-", NoBody), i + 1, FALSE)
    ELSE LET k == MessageKinds[Tok(buf, i) + 1] IN
         IF k = "Command"
         THEN LET b == de_command(buf, i + 1) IN Dec(Kind(k, b.v), b.n, b.ok)
         ELSE IF k = "CommandResponse"
         THEN LET b == de_response(buf, i + 1) IN Dec(Kind(k, b.v), b.n, b.ok)
         ELSE Dec(Kind(k, NoBody), i + 1, TRUE)

de_opt_kind(buf, i) ==
    IF Tok(buf, i) = 0 THEN Dec(None, i + 1, TRUE)
    ELSE LET k == de_kind(buf, i + 1) IN Dec(Some(k.v), k.n, k.ok /\ Tok(buf, i) = 1)

\* bincode::deserialize(recv buffer): the first envelope of the buffer; what
\* follows it in the buffer is not looked at.
deserialize(buf) ==
    With(de_opt_str(buf, 1), LAMBDA pn :
    With(de_opt(buf, pn.n), LAMBDA pid :
    With(de_opt(buf, pid.n + 1), LAMBDA tgt :
    With(de_opt_kind(buf, tgt.n), LAMBDA kind :
      [ok |-> pn.ok /\ pid.ok /\ tgt.ok /\ kind.ok,
       data |-> MessageData(Metadata(pn.v, pid.v, Tok(buf, pid.n), tgt.v), kind.v)]))))

(* ---------------------------------------------------------------------- *)
(* Message (msg.rs)                                                        *)
(* ---------------------------------------------------------------------- *)

NoData == MessageData(Metadata(None, None, 0, None), None)

\* st: "none" (the process holds no message), "live" or "dropped"; closes is
\* history: the close(2) calls the value has issued on its descriptor.
NoMsg == [st |-> "none", data |-> NoData, fd |-> None, closes |-> 0]

\* ToMessageKind for PipeEnd<Read> / PipeEnd<Write>: the kind follows the
\* direction and the descriptor is the one into_raw_fd hands out.
PipeEnd_to_message_kind(e) ==
    [kind |-> Kind(IF e.dir = "Read" THEN "ReadPipeEnd" ELSE "WritePipeEnd", NoBody),
     fd |-> Some(into_raw_fd(e).fd)]

AsyncCtlEnd_to_message_kind_write(e) ==
    [kind |-> Kind("WriteCtlEnd", NoBody), fd |-> Some(into_raw_fd(e).fd)]

\* ToMessageKind for AsyncCtlEnd<Read> / AsyncCtlEnd<Write>, reached from a
\* CtlEnd through the asynchronous wrap, which keeps the number.
AsyncCtlEnd_to_message_kind(e) ==
    [kind |-> Kind(IF e.dir = "Read" THEN "ReadCtlEnd" ELSE "WriteCtlEnd", NoBody),
     fd |-> Some(into_raw_fd(e).fd)]

\* ToMessageKind for Command and for CommandResponse: no descriptor.
Command_to_message_kind(k, body) == [kind |-> Kind(k, body), fd |-> None]

\* Message::prepare_message.
prepare_message(meta, kf) ==
    [st |-> "live", data |-> MessageData(meta, Some(kf.kind)), fd |-> kf.fd, closes |-> 0]

\* A message drop that spares only the negative numbers.
Message_drop_std(m) ==
    IF m.fd = None THEN {} ELSE IF m.fd[1] < 0 THEN {} ELSE {m.fd[1]}

\* impl Drop for Message: the numbers close(2) is called on.
Message_drop(m) ==
    IF m.fd = None THEN {}
    ELSE IF m.fd[1] \in STDIN..STDERR THEN {}
    ELSE IF m.fd[1] < 0 THEN {}
    ELSE {m.fd[1]}

\* A send_msg that leaves the descriptor it sends in the message.
send_msg_keeps(m) ==
    IF m.data.kind = None
    THEN [err |-> "kind must not be None here", msg |-> m, rights |-> <<>>]
    ELSE [err |-> "", msg |-> m, rights |-> m.fd]

\* A send_msg that sends an endpoint kind without a descriptor.
send_msg_nofd(m) ==
    IF m.data.kind = None
    THEN [err |-> "kind must not be None here", msg |-> m, rights |-> <<>>]
    ELSE [err |-> "", msg |-> [m EXCEPT !.fd = None], rights |-> m.fd]

\* Message::send_msg up to the sendmsg(2) call: whether it gets there (err
\* names the early return), the message as it then is (its descriptor taken
\* out when the kind carries one), and the descriptors put in SCM_RIGHTS.
send_msg(m) ==
    IF m.data.kind = None
    THEN [err |-> "kind must not be None here", msg |-> m, rights |-> <<>>]
    ELSE IF IsEndKind(m.data.kind[1])
    THEN IF m.fd = None
         THEN [err |-> "no fd in message to send", msg |-> m, rights |-> <<>>]
         ELSE [err |-> "", msg |-> [m EXCEPT !.fd = None], rights |-> m.fd]
    ELSE [err |-> "", msg |-> m, rights |-> <<>>]

\* A segment queued on a control socket: the bytes and, when the sender put
\* descriptors in SCM_RIGHTS, the open file they referred to.
Segment(bytes, rights) == [bytes |-> bytes, rights |-> rights]

\* Control::new makes the pair with SockType::Stream: one recvmsg(2) takes the
\* queued bytes up to the buffer's length, and stops after the first segment
\* that carries descriptors. The number of whole segments it takes:
RECURSIVE StreamTake(_, _)
StreamTake(q, k) ==
    IF k >= Len(q) THEN Len(q)
    ELSE IF q[k].rights # <<>> THEN k
    ELSE StreamTake(q, k + 1)

Control_new_recv(q) == StreamTake(q, 1)

RECURSIVE Concat(_, _)
Concat(q, k) == IF k = 0 THEN <<>> ELSE Concat(q, k - 1) \o q[k].bytes

\* Message::recv_msg on queue q by a process whose descriptor table is t: the
\* bytes and the SCM_RIGHTS of one recvmsg(2), then the decoding. A received
\* descriptor is installed in the table by the kernel whatever the decoding
\* does with it. The buffer holds RecvBufLen bytes: decoding an envelope that
\* is longer runs past its end and fails (the bytes that did not fit stay
\* queued; what the next receive makes of them is not followed).
recv_msg(q, t) ==
    With(Control_new_recv(q), LAMBDA k :
    With(deserialize(Concat(q, k)), LAMBDA d :
    With(IF q[k].rights = <<>> THEN NULL ELSE LowestFree(t), LAMBDA n :
    LET rights == q[k].rights
        Res(err, fd) ==
            [err |-> err, taken |-> k, q |-> SubSeq(q, k + 1, Len(q)),
             t |-> IF rights = <<>> THEN t ELSE [t EXCEPT ![n] = Received(rights[1])],
             installed |-> n,
             msg |-> [st |-> "live", data |-> d.data, fd |-> fd, closes |-> 0]]
    IN IF ~d.ok \/ serialized_size(d.data) > RecvBufLen THEN Res("deserialize", None)
       ELSE IF d.data.kind = None THEN Res("kind must not be None here", None)
       ELSE IF IsEndKind(d.data.kind[1])
       THEN IF rights # <<>> THEN Res("", Some(n))
            ELSE Res("Missing ScmRights from message", None)
       ELSE Res("", None))))

\* The four take accessors: the kind each one matches and the asynchronous end
\* it builds (take_write_pipe_end is declared to return AsyncPipeEnd<Read>).
Accessors ==
    [take_read_pipe_end |-> [k |-> "ReadPipeEnd", type |-> "AsyncPipeEnd", dir |-> "Read"],
     take_write_pipe_end |-> [k |-> "WritePipeEnd", type |-> "AsyncPipeEnd", dir |-> "Read"],
     take_read_ctl_end |-> [k |-> "ReadCtlEnd", type |-> "AsyncCtlEnd", dir |-> "Read"],
     take_write_ctl_end |-> [k |-> "WriteCtlEnd", type |-> "AsyncCtlEnd", dir |-> "Write"]]

AsyncEnd(proc, type, dir, fd) == [proc |-> proc, type |-> type, dir |-> dir, fd |-> fd]

\* An accessor that does not look at the kind.
take_any(m, acc, proc) ==
    IF m.fd = None THEN [out |-> None, msg |-> m]
    ELSE [out |-> Some(AsyncEnd(proc, Accessors[acc].type, Accessors[acc].dir, m.fd[1])),
          msg |-> [m EXCEPT !.fd = None]]

\* take_read_pipe_end .. take_write_ctl_end: the end handed out, if any, and
\* the message afterwards.
take(m, acc, proc) ==
    IF m.data.kind = None THEN [out |-> None, msg |-> m]
    ELSE IF m.data.kind[1].k # Accessors[acc].k THEN [out |-> None, msg |-> m]
    ELSE IF m.fd = None THEN [out |-> None, msg |-> m]
    ELSE [out |-> Some(AsyncEnd(proc, Accessors[acc].type, Accessors[acc].dir, m.fd[1])),
          msg |-> [m EXCEPT !.fd = None]]

\* Message::take_kind.
take_kind(m) == [out |-> m.data.kind, msg |-> [m EXCEPT !.data.kind = None]]

\* op: the operation; kind: what it acted on ("pipe", "ctl", "msg"); fd: the
\* number the value held before the operation, if any; forgot: whether forget() had
\* been called on it; closed: the numbers close(2) was called on.
Op(op, kind, fd, forgot, closed) ==
    [op |-> op, kind |-> kind, fd |-> fd, forgot |-> forgot, closed |-> closed]

NoOp == Op("none", "-", None, FALSE, {})

msgvars == <<chan, msgs, held, sentLog, recvLog, pc, kids, reg, exits, sup, logs, lead, cli>>

FreeEnds == {i \in EndIds : ends[i].st = "none"}

LowestFreeEnd(S) == CHOOSE x \in S : \A y \in S : x <= y

\* The parent process of the harness.
Parent == "init"

\* Pipe::new followed by split: two numbers from pipe(2), one PipeEnd each.
\* Control::new followed by split: the same from socketpair(2).
NewPair(kind) ==
    /\ Cardinality(FreeEnds) >= 2
    /\ Cardinality(FreeFds(fdtab[Parent])) >= 2
    /\ LET t == fdtab[Parent]
           r == LowestFree(t)
           t1 == [t EXCEPT ![r] = Obj(kind, "Read", r)]
           w == LowestFree(t1)
           t2 == [t1 EXCEPT ![w] = Obj(kind, "Write", r)]
           i == LowestFreeEnd(FreeEnds)
           j == LowestFreeEnd(FreeEnds \ {i})
       IN /\ fdtab' = [fdtab EXCEPT ![Parent] = t2]
          /\ ends' = [ends EXCEPT ![i] = from_raw_fd(kind, "Read", r),
                                  ![j] = from_raw_fd(kind, "Write", w)]
          /\ last' = Op("new", kind, Some(r), FALSE, {})
          /\ UNCHANGED msgvars

PipeNew ==
    /\ NewPair("pipe")

ControlNew ==
    /\ NewPair("ctl")

\* An endpoint built over a number the process was started with: a standard
\* stream (fork.rs STDIN, STDOUT, STDERR) or NULL for no stream.
EndFromRawFd ==
    \E kind \in {"pipe", "ctl"}, n \in {NULL, STDIN, STDOUT, STDERR} :
        /\ FreeEnds # {}
        /\ ends' = [ends EXCEPT ![LowestFreeEnd(FreeEnds)] =
                        from_raw_fd(kind, IF n = STDIN THEN "Read" ELSE "Write", n)]
        /\ last' = Op("from_raw_fd", kind, Some(n), FALSE, {})
        /\ UNCHANGED <<fdtab, msgvars, logs, lead, cli>>

EndForget ==
    \E i \in EndIds :
        /\ ends[i].st = "live"
        /\ ~ends[i].forgot
        /\ ends' = [ends EXCEPT ![i] = [forget(ends[i]) EXCEPT !.forgot = TRUE]]
        /\ last' = Op("forget", ends[i].kind, Some(ends[i].raw_fd), FALSE, {})
        /\ UNCHANGED <<fdtab, msgvars, logs, lead, cli>>

EndClose ==
    \E i \in EndIds :
        /\ ends[i].st = "live"
        /\ ends[i].closes < MaxCloseCalls
        /\ LET S == close(ends[i]) IN
            /\ fdtab' = [fdtab EXCEPT ![Parent] = OsCloseAll(@, S)]
            /\ ends' = [ends EXCEPT ![i].closes = @ + Cardinality(S)]
            /\ last' = Op("close", ends[i].kind, Some(ends[i].raw_fd), ends[i].forgot, S)
            /\ UNCHANGED msgvars

EndDrop ==
    \E i \in EndIds :
        /\ ends[i].st = "live"
        /\ LET S == drop(ends[i]) IN
            /\ fdtab' = [fdtab EXCEPT ![Parent] = OsCloseAll(@, S)]
            /\ ends' = [ends EXCEPT ![i] =
                            [NoEnd EXCEPT !.st = "dropped",
                                          !.closes = ends[i].closes + Cardinality(S)]]
            /\ last' = Op("drop", ends[i].kind, Some(ends[i].raw_fd), ends[i].forgot, S)
            /\ UNCHANGED msgvars

\* The process the parent spawns first and sends to (procs/logger.rs NAME).
Peer == "logger"

NoTable == [n \in FdNums |-> Closed]

\* The envelopes' metadata the harness uses for its n-th message.
Metas(n) == {Metadata(Some("a"), Some(n), 1, None)}

\* The commands and responses the harness sends.
Commands ==
    {Kind("Command", Body("Start", "Name", "b", 0)),
     Kind("CommandResponse", Body("ListItem", "-", "a", 4))}

DroppedMsg(n) == [NoMsg EXCEPT !.st = "dropped", !.closes = n]

\* Message::prepare_message(meta, end) for a PipeEnd, or for the AsyncCtlEnd a
\* CtlEnd is wrapped into: the endpoint value is consumed, its number moves
\* into the message.
PrepareEnd ==
    \E i \in EndIds, meta \in Metas(Len(sentLog) + 1) :
        /\ ends[i].st = "live"
        /\ msgs[Parent].st # "live"
        /\ LET e == ends[i]
               kf == IF e.kind = "pipe" THEN PipeEnd_to_message_kind(e)
                     ELSE AsyncCtlEnd_to_message_kind(e)
               S == drop(into_raw_fd(e).end)
           IN /\ msgs' = [msgs EXCEPT ![Parent] = prepare_message(meta, kf)]
              /\ ends' = [ends EXCEPT ![i] =
                              [NoEnd EXCEPT !.st = "dropped",
                                            !.closes = e.closes + Cardinality(S)]]
              /\ fdtab' = [fdtab EXCEPT ![Parent] = OsCloseAll(@, S)]
              /\ last' = Op("prepare", e.kind, kf.fd, e.forgot, S)
        /\ UNCHANGED <<chan, held, sentLog, recvLog, pc, kids, reg, exits, sup, logs, lead, cli>>

\* Message::prepare_message(meta, command) and (meta, response).
PrepareCommand ==
    \E c \in Commands, meta \in Metas(Len(sentLog) + 1) :
        /\ msgs[Parent].st # "live"
        /\ msgs' = [msgs EXCEPT ![Parent] =
                        prepare_message(meta, Command_to_message_kind(c.k, c.body))]
        /\ last' = Op("prepare", c.k, None, FALSE, {})
        /\ UNCHANGED <<fdtab, ends, chan, held, sentLog, recvLog, pc, kids, reg, exits, sup, logs, lead, cli>>

\* A Message value going out of scope in process p.
MsgDrop(p) ==
    /\ msgs[p].st = "live"
    /\ LET S == Message_drop(msgs[p]) IN
        /\ fdtab' = [fdtab EXCEPT ![p] = OsCloseAll(@, S)]
        /\ msgs' = [msgs EXCEPT ![p] = DroppedMsg(Cardinality(S))]
        /\ last' = Op("drop", "msg", msgs[p].fd, FALSE, S)
    /\ UNCHANGED <<ends, chan, held, sentLog, recvLog, pc, kids, reg, exits, sup, logs, lead, cli>>

MsgDropParent ==
    /\ MsgDrop(Parent)

MsgDropPeer ==
    /\ MsgDrop(Peer)

\* One of the four take accessors called on the message process p holds. The
\* asynchronous end it builds is kept by the process.
MsgTake(p) ==
    \E acc \in DOMAIN Accessors :
        /\ msgs[p].st = "live"
        /\ \E r \in {take(msgs[p], acc, p)} :
            /\ r.out # None => fdtab[p][r.out[1].fd] # Closed
            /\ msgs' = [msgs EXCEPT ![p] = r.msg]
            /\ held' = IF r.out = None THEN held ELSE held \cup {r.out[1]}
            /\ last' = Op(acc, IF r.out = None THEN "-" ELSE r.out[1].type,
                          msgs[p].fd, FALSE, {})
        /\ UNCHANGED <<fdtab, ends, chan, sentLog, recvLog, pc, kids, reg, exits, sup, logs, lead, cli>>

MsgTakeParent ==
    /\ MsgTake(Parent)

MsgTakePeer ==
    /\ MsgTake(Peer)

\* Message::take_kind on the message the parent holds.
MsgTakeKind ==
    /\ msgs[Parent].st = "live"
    /\ msgs[Parent].data.kind # None
    /\ msgs' = [msgs EXCEPT ![Parent] = take_kind(msgs[Parent]).msg]
    /\ last' = Op("take_kind", msgs[Parent].data.kind[1].k, msgs[Parent].fd, FALSE, {})
    /\ UNCHANGED <<fdtab, ends, chan, held, sentLog, recvLog, pc, kids, reg, exits, sup, logs, lead, cli>>

\* The roles init spawns, in the order it spawns them (vermilion.rs init).
Roles == <<"logger", "leader", "launcher", "ipc">>

\* Process ids, in the order the processes are created.
Pid == [init |-> 1, logger |-> 2, leader |-> 3, launcher |-> 4, ipc |-> 5]

\* Process::get_stdio of each role.
StdIoConf ==
    [logger |-> [stdin |-> "null", stdout |-> "inherit", stderr |-> "inherit"],
     leader |-> [stdin |-> "inherit", stdout |-> "piped", stderr |-> "piped"],
     launcher |-> [stdin |-> "inherit", stdout |-> "piped", stderr |-> "piped"],
     ipc |-> [stdin |-> "piped", stdout |-> "piped", stderr |-> "piped"]]

\* The CtlIn / CtlOut markers of each role's impl Process<I, O>.
HasControlIn == [logger |-> TRUE, leader |-> FALSE, launcher |-> TRUE, ipc |-> TRUE]

HasControlOut == [logger |-> FALSE, leader |-> TRUE, launcher |-> TRUE, ipc |-> TRUE]

Streams == <<"stdin", "stdout", "stderr">>

\* The open file a pair is made of: k is 1 for control-in, 2 for
\* control-out, 3..5 for the stdin, stdout and stderr pipes of the role, 6 for
\* a response channel the role made.
ChanId(role, k) == 10 * Pid[role] + k

PairOf(kind, ch) == <<Obj(kind, "Read", ch), Obj(kind, "Write", ch)>>

\* The control-out pair of a role that has one: the child is given the write
\* half, the parent keeps the read half as the child handle's control_out.
control_out(role) ==
    IF HasControlOut[role] THEN PairOf("ctl", ChanId(role, 2)) ELSE <<>>

\* The pipes std::process makes at spawn for the streams configured piped.
PipedStreams(role) == SelectSeq(Streams, LAMBDA st : StdIoConf[role][st] = "piped")

RECURSIVE StdioPipes(_, _)
StdioPipes(role, sts) ==
    IF sts = <<>> THEN <<>>
    ELSE PairOf("cpipe", ChanId(role, 2 + IndexOf(Streams, Head(sts))))
         \o StdioPipes(role, Tail(sts))

\* The number at position k of fds, if the position exists.
FdAt(fds, k) == IF k \in 1..Len(fds) THEN Some(fds[k]) ELSE None

\* The two numbers of the pipe of stream st among those AllocSeq gave.
PipeFds(role, st, fds) ==
    IF StdIoConf[role][st] # "piped" THEN None
    ELSE With(IndexOf(PipedStreams(role), st), LAMBDA k :
              Some([read |-> fds[2 * k - 1], write |-> fds[2 * k]]))

\* What the child has at 0, 1 or 2.
ChildStd(t, role, st) ==
    With(IndexOf(Streams, st) - 1, LAMBDA n :
         IF StdIoConf[role][st] = "inherit" THEN t[n]
         ELSE IF StdIoConf[role][st] = "null" THEN Obj("null", "-", 0)
         ELSE Obj("pipe", IF st = "stdin" THEN "Read" ELSE "Write", ChanId(role, 3 + n)))

\* The half of a stream's pipe the parent keeps / the half it closes once the
\* child is started.
ParentHalf(st, pf) == IF st = "stdin" THEN pf.write ELSE pf.read

ChildHalf(st, pf) == IF st = "stdin" THEN pf.read ELSE pf.write

\* The control flags of a child's command line: the number each names, if
\* the flag is there.
Argv(ctl_in, ctl_out) == [control_in |-> ctl_in, control_out |-> ctl_out]

NoArgv == Argv(None, None)

\* The flags new_process puts on the command line: --control-in=<read> for
\* every role, and nothing else.
new_process_args(read) == Argv(Some(read), None)

\* new_process(role) called with descriptor table t: Control::new and split,
\* the command with --control-in=<read>, the stdio of the role, spawn, and the
\* Child returned; the CtlEnd<Read> goes out of scope at the return.
new_process(t, role) ==
    With(AllocSeq(t, PairOf("ctl", ChanId(role, 1)) \o control_out(role)), LAMBDA c :
    With(AllocSeq(c.t, StdioPipes(role, PipedStreams(role))), LAMBDA s :
    With([st \in {"stdin", "stdout", "stderr"} |-> PipeFds(role, st, s.fds)], LAMBDA pf :
    LET read == c.fds[1]
        write == c.fds[2]
        theirs == {ChildHalf(st, pf[st][1]) : st \in {x \in DOMAIN pf : pf[x] # None}}
        S == CtlEnd_drop(from_raw_fd("ctl", "Read", read))
                 \cup (IF HasControlOut[role] THEN {c.fds[4]} ELSE {})
        inh == Inherited(c.t)
    IN [child |-> [n \in FdNums |->
                      IF n <= STDERR THEN ChildStd(t, role, Streams[n + 1]) ELSE inh[n]],
        parent |-> OsCloseAll(s.t, theirs \cup S),
        closed |-> S,
        control_in_arg |-> read,
        argv |-> new_process_args(read),
        control |-> write,
        control_out |-> FdAt(c.fds, 3),
        stdin |-> IF pf.stdin = None THEN None ELSE Some(pf.stdin[1].write),
        stdout |-> IF pf.stdout = None THEN None ELSE Some(pf.stdout[1].read),
        stderr |-> IF pf.stderr = None THEN None ELSE Some(pf.stderr[1].read)])))

\* The descriptors new_process(role) needs free.
SpawnNeeds(role) == 2 + Len(control_out(role)) + 2 * Len(PipedStreams(role))

\* init's handle on a child it has not spawned.
NoKid == [st |-> "none", ctl |-> None, control |-> None, control_out |-> None,
          stdin |-> None, stdout |-> None, stderr |-> None, argv |-> NoArgv]

\* HasCtlIn::get_ctl_in / NoCtlIn::get_ctl_in: the number of --control-in,
\* None without the flag or for a role that has no control-in.
get_ctl_in(role, argv) == IF HasControlIn[role] THEN argv.control_in ELSE None

\* HasCtlOut::get_ctl_out / NoCtlOut::get_ctl_out, the same for --control-out.
get_ctl_out(role, argv) == IF HasControlOut[role] THEN argv.control_out ELSE None

\* The control endpoints a role opens from its arguments when its run starts:
\* get_ctl_in in Logger::run and Ipc::run, get_ctl_out in Leader::run.
OpensAtStart(role, np) ==
    IF role \in {"logger", "ipc"}
    THEN {AsyncEnd(role, "AsyncCtlEnd", "Read", fd) :
              fd \in {n \in FdNums : get_ctl_in(role, np.argv) = Some(n)}}
    ELSE IF role = "leader"
    THEN {AsyncEnd(role, "AsyncCtlEnd", "Write", fd) :
              fd \in {n \in FdNums : get_ctl_out(role, np.argv) = Some(n)}}
    ELSE {}

\* The end of a child's handle init wraps into an AsyncCtlEnd and keeps:
\* take_control_out() for the Leader, take_control_in() for the others.
KeptControl(role, np) ==
    IF role = "leader" THEN AsyncEnd(Parent, "AsyncCtlEnd", "Read", np.control_out[1])
    ELSE AsyncEnd(Parent, "AsyncCtlEnd", "Write", np.control)

\* init spawning a role: new_process(role), then the control end of the
\* handle it keeps wrapped by into_async_ctl_end(); the child starts running.
Spawn(role) ==
    /\ pc[role] = "none"
    /\ Cardinality(FreeFds(fdtab[Parent])) >= SpawnNeeds(role)
    /\ \E np \in {new_process(fdtab[Parent], role)} :
        /\ fdtab' = [fdtab EXCEPT ![role] = np.child, ![Parent] = np.parent]
        /\ held' = held \cup {KeptControl(role, np)} \cup OpensAtStart(role, np)
        /\ kids' = [kids EXCEPT ![role] =
                        [st |-> "live",
                         ctl |-> Some(KeptControl(role, np).fd),
                         control |-> IF role = "leader" THEN Some(np.control) ELSE None,
                         control_out |-> IF role = "leader" THEN None ELSE np.control_out,
                         stdin |-> np.stdin, stdout |-> np.stdout, stderr |-> np.stderr,
                         argv |-> np.argv]]
        /\ last' = Op("new_process", role, Some(np.control_in_arg), FALSE, np.closed)

\* The message harness's parent spawning its peer.
SpawnPeer ==
    /\ Spawn(Peer)
    /\ pc' = [pc EXCEPT ![Peer] = "run"]
    /\ UNCHANGED <<ends, chan, msgs, sentLog, recvLog, reg, exits, sup, logs, lead, cli>>

\* The control end process p sends on / receives from.
CtlOf(p, dir) == {h \in held : h.proc = p /\ h.type = "AsyncCtlEnd" /\ h.dir = dir}

\* sendmsg(2) with SCM_RIGHTS naming S: EBADF when a number is not open.
sendmsg_ok(t, rights) == rights = <<>> \/ (rights[1] \in FdNums /\ t[rights[1]] # Closed)

\* message.send_msg(&mut ctl).await by a process whose table is t: whether the
\* segment was queued, the segment, the close(2) calls of the message's drop
\* when the call returns, and the record of the operation.
Sending(t, m) ==
    With(send_msg(m), LAMBDA s :
    With(s.err = "" /\ sendmsg_ok(t, s.rights), LAMBDA sent :
        [sent |-> sent,
         seg |-> Segment(serialize(m.data),
                         IF sent /\ s.rights # <<>> THEN Some(t[s.rights[1]]) ELSE None),
         closed |-> Message_drop(s.msg),
         op |-> Op(IF sent THEN "send" ELSE "send_err",
                   IF m.data.kind = None THEN "-" ELSE m.data.kind[1].k,
                   m.fd, FALSE, Message_drop(s.msg))]))

\* The same on a socket that may have lost its peer: once every descriptor of
\* the other end is closed sendmsg(2) fails with EPIPE, after send_msg has
\* taken the descriptor out of the message.
SendingTo(t, m, connected) ==
    With(Sending(t, m), LAMBDA s :
        IF connected THEN s
        ELSE [s EXCEPT !.sent = FALSE, !.seg = Segment(s.seg.bytes, None),
                       !.op = [s.op EXCEPT !.op = "send_err"]])

\* message.send_msg(&mut ctl).await in the parent, the message consumed by the
\* call and dropped when it returns.
SendMsg ==
    /\ msgs[Parent].st = "live"
    /\ CtlOf(Parent, "Write") # {}
    /\ Len(sentLog) < MaxSends
    /\ \E s \in {SendingTo(fdtab[Parent], msgs[Parent], pc[Peer] # "exited")} :
          /\ chan' = IF s.sent THEN [chan EXCEPT ![Peer] = Append(@, s.seg)] ELSE chan
          /\ sentLog' = IF s.sent THEN Append(sentLog, msgs[Parent].data) ELSE sentLog
          /\ fdtab' = [fdtab EXCEPT ![Parent] = OsCloseAll(@, s.closed)]
          /\ msgs' = [msgs EXCEPT ![Parent] = DroppedMsg(Cardinality(s.closed))]
          /\ last' = s.op
    /\ UNCHANGED <<ends, held, recvLog, pc, kids, reg, exits, sup, logs, lead, cli>>

\* Message::recv_msg(&mut control).await in the peer, once the socket is
\* readable. An Err is returned to the caller without a message.
RecvMsg ==
    /\ pc[Peer] = "run"
    /\ chan[Peer] # <<>>
    /\ msgs[Peer].st # "live"
    /\ FreeFds(fdtab[Peer]) # {}
    /\ \E r \in {recv_msg(chan[Peer], fdtab[Peer])} :
        /\ chan' = [chan EXCEPT ![Peer] = r.q]
        /\ fdtab' = [fdtab EXCEPT ![Peer] = r.t]
        /\ msgs' = IF r.err = "" THEN [msgs EXCEPT ![Peer] = r.msg] ELSE msgs
        /\ recvLog' = IF r.err = "" THEN Append(recvLog, r.msg.data) ELSE recvLog
        /\ last' = Op(IF r.err = "" THEN "recv" ELSE "recv_err",
                      IF r.msg.data.kind = None THEN "-" ELSE r.msg.data.kind[1].k,
                      IF r.installed = NULL THEN None ELSE Some(r.installed),
                      FALSE, {})
    /\ UNCHANGED <<ends, held, sentLog, pc, kids, reg, exits, sup, logs, lead, cli>>

\* cmd: the command handle_leader_message holds while it awaits the response
\* channel; turn: the iterations of the loop of Ipc::run completed.
NoReg == [logger |-> None, leader |-> None, launcher |-> None, err |-> "",
          cmd |-> None, turn |-> 0]

\* No forwarding task, no pipe, nothing printed. tasks: one entry per task
\* the Logger spawned, in order; pipes: [pipe -> the lines written to it, how
\* many of them have been read, whether a write end is still open]; out:
\* history, for each task the line the Logger printed when it spawned it and
\* the lines the task printed, in order; eofs: history, the receives of the
\* Logger that found its control socket closed by the peer.
NoLogs == [tasks |-> <<>>, pipes |-> <<>>, out |-> <<>>, eofs |-> 0]

\* No Leader started. path: whether SOCKET_CTL_PATH exists in the file
\* system; st: where the Leader is; argv: the flags it was started with;
\* bound: history, for each Leader started whether it had a control-out and
\* whether its bind succeeded; conns: the connections accepted; rx: the
\* commands queued in the channel of the dispatcher; handed: history, the
\* commands the dispatcher received.
NoLead == [path |-> FALSE, st |-> "none", argv |-> NoArgv, bound |-> <<>>, conns |-> 0,
           rx |-> <<>>, handed |-> <<>>]

\* No run of main. sub: the first word of the command line, if any; flags:
\* the flags given after it; st: where main is; matched: what
\* args.subcommand() returns; ran: history, the role whose run was entered;
\* outcome: how that run ended; via: what ended the process; code: its exit
\* code.
NoCli == [sub |-> None, flags |-> {}, st |-> "none", matched |-> None, ran |-> None,
          outcome |-> "-", via |-> "-", code |-> None]

\* No Supervisor running. st: where the Supervisor is; arg: the value given
\* to --max-starts, if any; exe: what becomes of the executable when it is
\* started; i: the iterations of the loop completed; payload: whether the
\* child is running; starts: history, the children spawned; status: the exit
\* status of the last child.
NoSup == [st |-> "none", arg |-> None, exe |-> "exits", max_restarts |-> 0, i |-> 0,
          payload |-> "none", starts |-> 0, status |-> None]

InitEnd ==
    /\ fdtab = [p \in {Parent, Peer} |-> IF p = Parent THEN StdTable ELSE NoTable]
    /\ ends = [i \in EndIds |-> NoEnd]
    /\ last = NoOp
    /\ chan = [c \in {Peer} |-> <<>>]
    /\ msgs = [p \in {Parent, Peer} |-> NoMsg]
    /\ held = {}
    /\ sentLog = <<>>
    /\ recvLog = <<>>
    /\ pc = [p \in {Parent, Peer} |-> IF p = Parent THEN "run" ELSE "none"]
    /\ kids = [r \in {Peer} |-> NoKid]
    /\ reg = NoReg
    /\ exits = <<>>
    /\ sup = NoSup
    /\ logs = NoLogs
    /\ lead = NoLead
    /\ cli = NoCli

NextEnd ==
    \/ PipeNew
    \/ ControlNew
    \/ EndFromRawFd
    \/ EndForget
    \/ EndClose
    \/ EndDrop
    \/ PrepareEnd
    \/ MsgDropParent

SpecEnd == InitEnd /\ [][NextEnd]_vars

\* The message harness starts where the endpoint harness does.
InitMsg == InitEnd

NextMsg ==
    \/ SpawnPeer
    \/ PipeNew
    \/ ControlNew
    \/ PrepareEnd
    \/ PrepareCommand
    \/ MsgTakeParent
    \/ MsgTakeKind
    \/ MsgDropParent
    \/ SendMsg
    \/ RecvMsg
    \/ MsgTakePeer
    \/ MsgDropPeer

SpecMsg == InitMsg /\ [][NextMsg]_vars

\* The peer ending: the kernel closes its descriptors, the read end of the
\* control socket among them, and what was queued for it is discarded.
PeerExit ==
    /\ pc[Peer] = "run"
    /\ pc' = [pc EXCEPT ![Peer] = "exited"]
    /\ fdtab' = [fdtab EXCEPT ![Peer] = NoTable]
    /\ held' = {h \in held : h.proc # Peer}
    /\ chan' = [chan EXCEPT ![Peer] = <<>>]
    /\ last' = Op("exit", Peer, None, FALSE, {})
    /\ UNCHANGED <<ends, msgs, sentLog, recvLog, kids, reg, exits, sup, logs, lead, cli>>

\* A sender whose peer may end before it sends.
NextSend ==
    \/ SpawnPeer
    \/ PeerExit
    \/ PipeNew
    \/ ControlNew
    \/ PrepareEnd
    \/ PrepareCommand
    \/ MsgTakeKind
    \/ SendMsg
    \/ EndDrop

SpecSend == InitMsg /\ [][NextSend]_vars

(* ---------------------------------------------------------------------- *)
(* Init wiring the root roles, the Logger and the Ipc's handshake          *)
(* (bin/vermilion.rs, procs/logger.rs, procs/ipc.rs, procs/launcher.rs)    *)
(* ---------------------------------------------------------------------- *)

TreeProcs == {Parent} \cup {Roles[i] : i \in 1..Len(Roles)}

\* procs::Logger::NAME.
Logger_NAME == "logger"

InitSteps_ctl_early ==
    <<[l |-> "spawn_logger", op |-> "spawn", role |-> "logger"],
      [l |-> "spawn_leader", op |-> "spawn", role |-> "leader"],
      [l |-> "stdout_leader", op |-> "stdout", role |-> "leader"],
      [l |-> "stderr_leader", op |-> "stderr", role |-> "leader"],
      [l |-> "spawn_launcher", op |-> "spawn", role |-> "launcher"],
      [l |-> "stdout_launcher", op |-> "stdout", role |-> "launcher"],
      [l |-> "stderr_launcher", op |-> "stderr", role |-> "launcher"],
      [l |-> "spawn_ipc", op |-> "spawn", role |-> "ipc"],
      [l |-> "ctl_logger", op |-> "ctl", role |-> "logger"],
      [l |-> "stdout_ipc", op |-> "stdout", role |-> "ipc"],
      [l |-> "stderr_ipc", op |-> "stderr", role |-> "ipc"],
      [l |-> "ctl_leader", op |-> "ctl", role |-> "leader"],
      [l |-> "ctl_launcher", op |-> "ctl", role |-> "launcher"],
      [l |-> "select", op |-> "select", role |-> "-"]>>

\* The statements of init, in order: what each does and for which role.
InitSteps ==
    <<[l |-> "spawn_logger", op |-> "spawn", role |-> "logger"],
      [l |-> "spawn_leader", op |-> "spawn", role |-> "leader"],
      [l |-> "stdout_leader", op |-> "stdout", role |-> "leader"],
      [l |-> "stderr_leader", op |-> "stderr", role |-> "leader"],
      [l |-> "spawn_launcher", op |-> "spawn", role |-> "launcher"],
      [l |-> "stdout_launcher", op |-> "stdout", role |-> "launcher"],
      [l |-> "stderr_launcher", op |-> "stderr", role |-> "launcher"],
      [l |-> "spawn_ipc", op |-> "spawn", role |-> "ipc"],
      [l |-> "stdout_ipc", op |-> "stdout", role |-> "ipc"],
      [l |-> "stderr_ipc", op |-> "stderr", role |-> "ipc"],
      [l |-> "ctl_logger", op |-> "ctl", role |-> "logger"],
      [l |-> "ctl_leader", op |-> "ctl", role |-> "leader"],
      [l |-> "ctl_launcher", op |-> "ctl", role |-> "launcher"],
      [l |-> "select", op |-> "select", role |-> "-"]>>

StepIndex(l) == CHOOSE i \in 1..Len(InitSteps) : InitSteps[i].l = l

InitLabels == {InitSteps[i].l : i \in 1..Len(InitSteps)}

\* The statement init is at, when it is at one.
Cur == InitSteps[StepIndex(pc[Parent])]

After(l) == InitSteps[StepIndex(l) + 1].l

\* Where a role's run starts.
StartOf(role) == IF role = "ipc" THEN "get_logger" ELSE "run"

\* An entry of exits: the role that ended, and whether init had finished
\* the wiring and was at its select.
ExitOf(r) == [role |-> r, wired |-> pc[Parent] = "select"]

\* A process that has ended: its descriptors are closed by the kernel.
Exited(p, pcs) == [pcs EXCEPT ![p] = "exited"]

TearDown_nokill(op) ==
    /\ pc' = [pc EXCEPT ![Parent] = "exited"]
    /\ fdtab' = [fdtab EXCEPT ![Parent] = NoTable]
    /\ held' = {h \in held : h.proc # Parent}
    /\ kids' = [r \in DOMAIN kids |-> NoKid]
    /\ chan' = chan
    /\ last' = op
    /\ UNCHANGED <<ends, msgs, sentLog, recvLog, reg, exits, sup, logs, lead, cli>>

\* init returning from main: every Child is dropped, and kill_on_drop(true)
\* kills the process behind it.
TearDown(op) ==
    /\ pc' = [p \in TreeProcs |-> IF pc[p] = "none" THEN "none" ELSE "exited"]
    /\ fdtab' = [p \in TreeProcs |-> NoTable]
    /\ held' = {}
    /\ kids' = [r \in DOMAIN kids |-> NoKid]
    /\ chan' = [c \in DOMAIN chan |-> <<>>]
    /\ last' = op
    /\ UNCHANGED <<ends, msgs, sentLog, recvLog, reg, exits, sup, logs, lead, cli>>

\* new_process(role) and the wrap of the control end init keeps.
InitSpawn ==
    /\ pc[Parent] \in InitLabels
    /\ Cur.op = "spawn"
    /\ Spawn(Cur.role)
    /\ pc' = [pc EXCEPT ![Parent] = After(pc[Parent]), ![Cur.role] = StartOf(Cur.role)]
    /\ UNCHANGED <<ends, chan, msgs, sentLog, recvLog, reg, exits, sup, logs, lead, cli>>

\* ToMessageKind for &ChildStdout and &ChildStderr: the number is borrowed.
ChildStdout_to_message_kind(fd) == [kind |-> Kind("ReadPipeEnd", NoBody), fd |-> Some(fd)]

\* init's control end for a role, as the endpoint it was wrapped from.
KeptEnd(role) ==
    from_raw_fd("ctl", IF role = "leader" THEN "Read" ELSE "Write", kids[role].ctl[1])

\* send_output_to_logger, one half per step: the child's stdout, then its
\* stderr, each sent to the Logger as a read pipe end. The streams taken from
\* the child are locals of the function and are dropped, and so closed, when
\* it returns after the second send.
InitSendOutput ==
    /\ pc[Parent] \in InitLabels
    /\ Cur.op \in {"stdout", "stderr"}
    /\ pc["logger"] = "run"
    /\ LET role == Cur.role
           meta == Metadata(Some(role), Some(Pid[role]), Pid[Parent], Some(Pid["logger"]))
           m == prepare_message(meta, ChildStdout_to_message_kind(kids[role][Cur.op][1]))
           S == IF Cur.op = "stderr"
                THEN {kids[role].stdout[1], kids[role].stderr[1]} ELSE {}
       IN \E s \in {Sending(fdtab[Parent], m)} :
            /\ s.sent
            /\ chan' = [chan EXCEPT !["logger"] = Append(@, s.seg)]
            /\ sentLog' = Append(sentLog, m.data)
            /\ fdtab' = [fdtab EXCEPT ![Parent] = OsCloseAll(@, s.closed \cup S)]
            /\ kids' = IF Cur.op = "stderr"
                       THEN [kids EXCEPT ![role].stdout = None, ![role].stderr = None]
                       ELSE kids
            /\ last' = [s.op EXCEPT !.closed = s.closed \cup S]
    /\ pc' = [pc EXCEPT ![Parent] = After(pc[Parent])]
    /\ UNCHANGED <<ends, msgs, held, recvLog, reg, exits, sup, logs, lead, cli>>

\* send_ctl_to_ipc(role, ctl, pid, ipc_pid, ipc_ctl): the control end init
\* kept for the role moves into a message sent to the Ipc. When the Ipc has
\* ended the send fails and the error ends init.
InitSendCtl ==
    /\ pc[Parent] \in InitLabels
    /\ Cur.op = "ctl"
    /\ LET role == Cur.role
           meta == Metadata(Some(role), Some(Pid[role]), Pid[Parent], Some(Pid["ipc"]))
           m == prepare_message(meta, AsyncCtlEnd_to_message_kind(KeptEnd(role)))
       IN IF pc["ipc"] = "exited"
          THEN TearDown(Op("send_err", KindOf(m.data), m.fd, FALSE, {}))
          ELSE \E s \in {Sending(fdtab[Parent], m)} :
                 /\ s.sent
                 /\ chan' = [chan EXCEPT !["ipc"] = Append(@, s.seg)]
                 /\ sentLog' = Append(sentLog, m.data)
                 /\ fdtab' = [fdtab EXCEPT ![Parent] = OsCloseAll(@, s.closed)]
                 /\ held' = held \ {h \in held : h.proc = Parent /\ h.fd = kids[role].ctl[1]}
                 /\ kids' = [kids EXCEPT ![role].ctl = None]
                 /\ last' = s.op
                 /\ pc' = [pc EXCEPT ![Parent] = After(pc[Parent])]
                 /\ UNCHANGED <<ends, msgs, recvLog, reg, exits, sup, logs, lead, cli>>

\* The select over the four children's wait(): when init is polled, one of
\* the branches whose child has ended is taken, whichever it is, and its
\* message names that role; init returns the error.
InitSelect ==
    /\ pc[Parent] \in InitLabels
    /\ Cur.op = "select"
    /\ \E i \in 1..Len(Roles) :
         /\ pc[Roles[i]] = "exited"
         /\ TearDown(Op("select", Roles[i], None, FALSE, {}))

\* Option::unwrap_or.
unwrap_or(o, d) == IF o = None THEN d ELSE o[1]

\* What Logger::run reads in the metadata of a message for the task it
\* spawns: pid().unwrap_or(-1) and proc_name().unwrap_or("unknown").
Logger_pid(meta) == unwrap_or(meta.pid, -1)

Logger_name(meta) == unwrap_or(meta.proc_name, "unknown")

\* One line printed on the Logger's standard output: fmt is the format
\* string, the other fields its arguments.
OutLine(fmt, name, pid, line) == [fmt |-> fmt, name |-> name, pid |-> pid, line |-> line]

\* tokio::spawn(print_messages_to_stdout(reader, pid, name)) after the
\* println of Logger::run: the task starts in its loop, owning the reader.
\* ch is history: the open file the reader refers to.
spawn_print_messages(l, fd, ch, meta) ==
    [l EXCEPT !.tasks = Append(@, [fd |-> fd, ch |-> ch, pid |-> Logger_pid(meta),
                                   name |-> Logger_name(meta), st |-> "reading",
                                   errs |-> 0, others |-> 0]),
              !.out = Append(@, <<OutLine("Logger: received fd from: {}", "-",
                                          Logger_pid(meta), "-")>>)]

\* One turn of the loop of Logger::run: recv_msg, an error skipped, the read
\* pipe end taken and given to a task that prints its lines; a message
\* without one panics the Logger.
LoggerRecv ==
    /\ pc["logger"] = "run"
    /\ chan["logger"] # <<>>
    /\ FreeFds(fdtab["logger"]) # {}
    /\ \E r \in {recv_msg(chan["logger"], fdtab["logger"])} :
       \E tk \in {take(r.msg, "take_read_pipe_end", "logger")} :
        /\ chan' = [chan EXCEPT !["logger"] = r.q]
        /\ last' = Op(IF r.err = "" THEN "recv" ELSE "recv_err", KindOf(r.msg.data),
                      IF r.installed = NULL THEN None ELSE Some(r.installed), FALSE,
                      Message_drop(tk.msg))
        /\ IF r.err = "" /\ tk.out = None
           THEN /\ pc' = Exited("logger", pc)
                /\ exits' = Append(exits, ExitOf("logger"))
                /\ fdtab' = [fdtab EXCEPT !["logger"] = NoTable]
                /\ held' = {h \in held : h.proc # "logger"}
                /\ logs' = logs
           ELSE /\ pc' = pc
                /\ exits' = exits
                /\ fdtab' = [fdtab EXCEPT !["logger"] = r.t]
                /\ held' = IF r.err = "" THEN held \cup {tk.out[1]} ELSE held
                /\ logs' = IF r.err = ""
                           THEN spawn_print_messages(logs, tk.out[1].fd,
                                                     r.t[tk.out[1].fd].ch, r.msg.data.meta)
                           ELSE logs
    /\ UNCHANGED <<ends, msgs, sentLog, recvLog, kids, reg, sup, lead, cli>>

\* The body shared by get_logger, get_leader and get_launcher: the name in
\* the metadata matched against `name`, the pid read, the control end taken
\* with accessor `acc`.
get_registration(m, name, acc, missing) ==
    IF m.data.meta.proc_name[1] # name
    THEN [err |-> "Wrong process", pid |-> 0, out |-> None, msg |-> m]
    ELSE With(take(m, acc, "ipc"), LAMBDA tk :
         [err |-> IF tk.out = None THEN missing ELSE "",
          pid |-> m.data.meta.pid[1], out |-> tk.out, msg |-> tk.msg])

get_logger(m) ==
    get_registration(m, Logger_NAME, "take_write_ctl_end", "expected write ctl end")

get_leader(m) ==
    get_registration(m, Logger_NAME, "take_read_ctl_end", "expected read ctl end")

get_launcher(m) ==
    get_registration(m, Logger_NAME, "take_write_ctl_end", "expected write ctl end")

\* The handshake stages of Ipc::run, and what follows each.
IpcStages == <<"get_logger", "get_leader", "get_launcher", "steady">>

IpcRoleOf == [get_logger |-> "logger", get_leader |-> "leader", get_launcher |-> "launcher"]

\* One of the three handshake reads of Ipc::run: get_logger, get_leader or
\* get_launcher by the stage the Ipc is at. An Err returns from run and ends
\* the process; after the third the Ipc is in its loop.
IpcHandshake ==
    /\ pc["ipc"] \in {"get_logger", "get_leader", "get_launcher"}
    /\ chan["ipc"] # <<>>
    /\ FreeFds(fdtab["ipc"]) # {}
    /\ \E r \in {recv_msg(chan["ipc"], fdtab["ipc"])} :
       \E g \in {IF pc["ipc"] = "get_logger" THEN get_logger(r.msg)
                 ELSE IF pc["ipc"] = "get_leader" THEN get_leader(r.msg)
                 ELSE get_launcher(r.msg)} :
       LET err == IF r.err # "" THEN r.err ELSE g.err
           dropped == IF r.err # "" THEN {} ELSE Message_drop(g.msg)
       IN /\ chan' = [chan EXCEPT !["ipc"] = r.q]
          /\ last' = Op(IF r.err = "" THEN "recv" ELSE "recv_err", KindOf(r.msg.data),
                        IF r.installed = NULL THEN None ELSE Some(r.installed), FALSE,
                        dropped)
          /\ IF err # ""
             THEN /\ reg' = [reg EXCEPT !.err = err]
                  /\ pc' = Exited("ipc", pc)
                  /\ exits' = Append(exits, ExitOf("ipc"))
                  /\ fdtab' = [fdtab EXCEPT !["ipc"] = NoTable]
                  /\ held' = {h \in held : h.proc # "ipc"}
             ELSE /\ reg' = [reg EXCEPT ![IpcRoleOf[pc["ipc"]]] =
                                 Some([pid |-> g.pid, fd |-> g.out[1].fd])]
                  /\ pc' = [pc EXCEPT !["ipc"] = IpcStages[IndexOf(IpcStages, @) + 1]]
                  /\ exits' = exits
                  /\ fdtab' = [fdtab EXCEPT !["ipc"] = r.t]
                  /\ held' = held \cup {g.out[1]}
    /\ UNCHANGED <<ends, msgs, sentLog, recvLog, kids, sup, logs, lead, cli>>

\* The Leader ending at its start: its sub-command defines no --control-in,
\* which get_matches rejects, and without --control-out on the command line
\* the expect on get_ctl_out in Leader::run panics.
LeaderExit ==
    /\ pc["leader"] = "run"
    /\ get_ctl_out("leader", kids["leader"].argv) = None
    /\ pc' = Exited("leader", pc)
    /\ exits' = Append(exits, ExitOf("leader"))
    /\ fdtab' = [fdtab EXCEPT !["leader"] = NoTable]
    /\ held' = {h \in held : h.proc # "leader"}
    /\ last' = Op("exit", "leader", None, FALSE, {})
    /\ UNCHANGED <<ends, chan, msgs, sentLog, recvLog, kids, reg, sup, logs, lead, cli>>

\* The Launcher ending: Launcher::run returns after its sixty one-second
\* turns (main registers no launcher sub-command, so the process may end as
\* soon as its arguments are parsed).
LauncherExit ==
    /\ pc["launcher"] = "run"
    /\ pc' = Exited("launcher", pc)
    /\ exits' = Append(exits, ExitOf("launcher"))
    /\ fdtab' = [fdtab EXCEPT !["launcher"] = NoTable]
    /\ held' = {h \in held : h.proc # "launcher"}
    /\ last' = Op("exit", "launcher", None, FALSE, {})
    /\ UNCHANGED <<ends, chan, msgs, sentLog, recvLog, kids, reg, sup, logs, lead, cli>>

\* The state at the start of init.
Init ==
    /\ fdtab = [p \in TreeProcs |-> IF p = Parent THEN StdTable ELSE NoTable]
    /\ ends = [i \in EndIds |-> NoEnd]
    /\ last = NoOp
    /\ chan = [c \in {"logger", "ipc"} |-> <<>>]
    /\ msgs = [p \in TreeProcs |-> NoMsg]
    /\ held = {}
    /\ sentLog = <<>>
    /\ recvLog = <<>>
    /\ pc = [p \in TreeProcs |-> IF p = Parent THEN "spawn_logger" ELSE "none"]
    /\ kids = [r \in TreeProcs \ {Parent} |-> NoKid]
    /\ reg = NoReg
    /\ exits = <<>>
    /\ sup = NoSup
    /\ logs = NoLogs
    /\ lead = NoLead
    /\ cli = NoCli

Next ==
    \/ InitSpawn
    \/ InitSendOutput
    \/ InitSendCtl
    \/ InitSelect
    \/ LoggerRecv
    \/ IpcHandshake
    \/ LeaderExit
    \/ LauncherExit

Spec == Init /\ [][Next]_vars

(* ---------------------------------------------------------------------- *)
(* Ipc::run against whatever arrives on its control sockets (procs/ipc.rs) *)
(* ---------------------------------------------------------------------- *)

\* The ends the holder of the Ipc's control-in has to hand over: the write
\* end to the Ipc itself, then a write control end and a read control end
\* (the Leader's control-out).
SenderEnds ==
    <<Obj("ctl", "Write", ChanId("ipc", 1)), Obj("ctl", "Write", ChanId("logger", 1)),
      Obj("ctl", "Read", ChanId("leader", 2))>>

SenderTable == AllocSeq(StdTable, SenderEnds)

\* The Leader's ends: the write end of its control-out and the write end of
\* a response channel.
LeaderEnds ==
    <<Obj("ctl", "Write", ChanId("leader", 2)), Obj("ctl", "Write", ChanId("leader", 6))>>

LeaderTable == AllocSeq(StdTable, LeaderEnds)

\* The Ipc as it starts: its stdio and the read end of its control-in.
IpcTable ==
    AllocSeq([n \in FdNums |->
                 IF n <= STDERR THEN ChildStd(StdTable, "ipc", Streams[n + 1]) ELSE Closed],
             <<Obj("ctl", "Read", ChanId("ipc", 1))>>)

\* The registrations a sender may build: any root role's name and pid, either
\* control end, and as source pid init's or another process's.
Registrations ==
    {prepare_message(Metadata(Some(name), Some(Pid[name]), src, Some(Pid["ipc"])),
                     AsyncCtlEnd_to_message_kind(
                         from_raw_fd("ctl", SenderTable.t[fd].dir, fd))) :
        name \in {"logger", "leader", "launcher"},
        fd \in {SenderTable.fds[2], SenderTable.fds[3]},
        src \in {Pid[Parent], Pid["leader"]}}

\* What may arrive from the Leader: a List, a Start, a response channel, with
\* the Leader's pid or another process's as source pid.
LeaderMessages ==
    {prepare_message(Metadata(None, None, src, Some(Pid["ipc"])), kf) :
        kf \in {Command_to_message_kind("Command", Body("List", "-", "-", 0)),
                Command_to_message_kind("Command", Body("Start", "Name", "a", 0)),
                AsyncCtlEnd_to_message_kind(
                    from_raw_fd("ctl", "Write", LeaderTable.fds[2]))},
        src \in {Pid["leader"], Pid["launcher"]}}

\* message.send_msg(&mut ctl).await by process p on socket c.
Deliver(p, c, m) ==
    /\ Len(sentLog) < MaxDeliver
    /\ Len(chan[c]) < MaxQueue
    /\ \E s \in {Sending(fdtab[p], m)} :
        /\ s.sent
        /\ chan' = [chan EXCEPT ![c] = Append(@, s.seg)]
        /\ sentLog' = Append(sentLog, m.data)
        /\ fdtab' = [fdtab EXCEPT ![p] = OsCloseAll(@, s.closed)]
        /\ last' = s.op
    /\ UNCHANGED <<ends, msgs, held, recvLog, pc, kids, reg, exits, sup, logs, lead, cli>>

\* A registration sent into the Ipc's control-in while the Ipc is in its
\* handshake.
SendRegistration ==
    /\ pc["ipc"] \in {"get_logger", "get_leader", "get_launcher"}
    /\ \E m \in Registrations : Deliver(Parent, "ipc", m)

\* A registration of a supervised process sent into the Ipc's control-in
\* once the Ipc is in its loop.
RegisterProcess ==
    /\ pc["ipc"] \in {"steady", "await_ctl"}
    /\ \E m \in Registrations : Deliver(Parent, "ipc", m)

\* The tables of Ipc::run, proc_names and procs: created empty, bound
\* without mut, and borrowed only by the loop of the List arm.
proc_names == <<>>

procs == <<>>

\* A message sent on the Leader's control-out while the Ipc is in its loop.
SendFromLeader ==
    /\ pc["ipc"] \in {"steady", "await_ctl"}
    /\ \E m \in LeaderMessages : Deliver("leader", "leader", m)

\* MessageKind::into_command: the command of a Command kind, an Err for
\* every other kind.
into_command(kind) ==
    IF kind.k = "Command" THEN [ok |-> TRUE, cmd |-> kind.body]
    ELSE [ok |-> FALSE, cmd |-> NoBody]

\* handle_leader_message up to its await: the command taken out of the
\* first message.
handle_leader_message_cmd(m) ==
    With(take_kind(m), LAMBDA tk :
        IF tk.out = None
        THEN [err |-> "Something stole our command", cmd |-> NoBody, msg |-> tk.msg]
        ELSE With(into_command(tk.out[1]), LAMBDA c :
             [err |-> IF c.ok THEN "" ELSE "expected a command from the Leader",
              cmd |-> c.cmd, msg |-> tk.msg]))

handle_leader_message_noctl(cmd, m) ==
    [err |-> "", cmd |-> cmd, ctl_out |-> take(m, "take_write_ctl_end", "ipc").out,
     msg |-> take(m, "take_write_ctl_end", "ipc").msg]

\* handle_leader_message after its await: the response channel taken out of
\* the second message, and the pair it returns.
handle_leader_message(cmd, m) ==
    With(take(m, "take_write_ctl_end", "ipc"), LAMBDA tk :
        [err |-> IF tk.out = None THEN "expected write ctl end" ELSE "",
         cmd |-> cmd, ctl_out |-> tk.out, msg |-> tk.msg])

\* Ipc::run ending, by an Err returned or by a panic.
IpcEnds(err) ==
    /\ reg' = [reg EXCEPT !.err = err, !.cmd = None]
    /\ pc' = Exited("ipc", pc)
    /\ exits' = Append(exits, ExitOf("ipc"))
    /\ fdtab' = [fdtab EXCEPT !["ipc"] = NoTable]
    /\ held' = {h \in held : h.proc # "ipc"}

\* The end of an iteration of the loop with descriptor table t: the next
\* iteration, or the unimplemented!() after the last.
IpcTurn(t) ==
    IF reg.turn + 1 >= IpcTurns THEN IpcEnds("not implemented")
    ELSE /\ reg' = [reg EXCEPT !.turn = @ + 1, !.cmd = None]
         /\ pc' = [pc EXCEPT !["ipc"] = "steady"]
         /\ exits' = exits
         /\ fdtab' = [fdtab EXCEPT !["ipc"] = t]
         /\ held' = held

\* The select of the loop of Ipc::run and handle_leader_message up to its
\* await: leader.recv_msg(), an error printed and the iteration over, else
\* the command taken from the message; a message that is not a command
\* returns an Err from run.
IpcRecvCommand ==
    /\ pc["ipc"] = "steady"
    /\ chan["leader"] # <<>>
    /\ FreeFds(fdtab["ipc"]) # {}
    /\ \E r \in {recv_msg(chan["leader"], fdtab["ipc"])} :
       \E h \in {handle_leader_message_cmd(r.msg)} :
        /\ chan' = [chan EXCEPT !["leader"] = r.q]
        /\ recvLog' = IF r.err = "" THEN Append(recvLog, r.msg.data) ELSE recvLog
        /\ last' = Op(IF r.err = "" THEN "recv" ELSE "recv_err", KindOf(r.msg.data),
                      IF r.installed = NULL THEN None ELSE Some(r.installed), FALSE,
                      IF r.err = "" /\ h.err # "" THEN Message_drop(h.msg) ELSE {})
        /\ IF r.err # "" THEN IpcTurn(r.t)
           ELSE IF h.err # "" THEN IpcEnds(h.err)
           ELSE /\ reg' = [reg EXCEPT !.cmd = Some(h.cmd)]
                /\ pc' = [pc EXCEPT !["ipc"] = "await_ctl"]
                /\ exits' = exits
                /\ fdtab' = [fdtab EXCEPT !["ipc"] = r.t]
                /\ held' = held
    /\ UNCHANGED <<ends, msgs, sentLog, kids, sup, logs, lead, cli>>

\* The rest of handle_leader_message and the match on the command: the
\* second leader.recv_msg(), the write control end taken as the response
\* channel, then the arm of the command. The List arm iterates over procs,
\* which is empty, and sends nothing; the response channel is dropped at the
\* end of the arm. Every other arm is unimplemented!().
IpcRecvCtl ==
    /\ pc["ipc"] = "await_ctl"
    /\ chan["leader"] # <<>>
    /\ FreeFds(fdtab["ipc"]) # {}
    /\ \E r \in {recv_msg(chan["leader"], fdtab["ipc"])} :
       \E h \in {handle_leader_message(reg.cmd[1], r.msg)} :
       \E out \in {IF h.ctl_out = None THEN None ELSE Some(h.ctl_out[1].fd)} :
        /\ chan' = [chan EXCEPT !["leader"] = r.q]
        /\ recvLog' = IF r.err = "" THEN Append(recvLog, r.msg.data) ELSE recvLog
        /\ IF r.err # ""
           THEN /\ IpcEnds(r.err)
                /\ last' = Op("recv_err", KindOf(r.msg.data), None, FALSE, {})
           ELSE IF h.err # ""
           THEN /\ IpcEnds(h.err)
                /\ last' = Op("recv", KindOf(r.msg.data), None, FALSE, Message_drop(h.msg))
           ELSE IF h.cmd.c = "List"
           THEN /\ IpcTurn(OsCloseAll(r.t, {out[i] : i \in DOMAIN out}))
                /\ last' = Op("handle", h.cmd.c, out, FALSE, {out[i] : i \in DOMAIN out})
           ELSE /\ IpcEnds("not implemented")
                /\ last' = Op("handle", h.cmd.c, out, FALSE, {})
    /\ UNCHANGED <<ends, msgs, sentLog, kids, sup, logs, lead, cli>>

\* An Ipc started with its control-in, the process that holds the other end
\* and the Leader.
InitIpc ==
    /\ fdtab = [p \in TreeProcs |->
                   IF p = Parent THEN SenderTable.t
                   ELSE IF p = "leader" THEN LeaderTable.t
                   ELSE IF p = "ipc" THEN IpcTable.t
                   ELSE NoTable]
    /\ ends = [i \in EndIds |-> NoEnd]
    /\ last = NoOp
    /\ chan = [c \in {"ipc", "leader"} |-> <<>>]
    /\ msgs = [p \in TreeProcs |-> NoMsg]
    /\ held = {AsyncEnd("ipc", "AsyncCtlEnd", "Read", IpcTable.fds[1]),
               AsyncEnd(Parent, "AsyncCtlEnd", "Write", SenderTable.fds[1]),
               AsyncEnd("leader", "AsyncCtlEnd", "Write", LeaderTable.fds[1])}
    /\ sentLog = <<>>
    /\ recvLog = <<>>
    /\ pc = [p \in TreeProcs |->
                IF p = "ipc" THEN "get_logger"
                ELSE IF p \in {Parent, "leader"} THEN "run" ELSE "none"]
    /\ kids = [r \in TreeProcs \ {Parent} |-> NoKid]
    /\ reg = NoReg
    /\ exits = <<>>
    /\ sup = NoSup
    /\ logs = NoLogs
    /\ lead = NoLead
    /\ cli = NoCli

NextIpc ==
    \/ SendRegistration
    \/ RegisterProcess
    \/ SendFromLeader
    \/ IpcHandshake
    \/ IpcRecvCommand
    \/ IpcRecvCtl

SpecIpc == InitIpc /\ [][NextIpc]_vars

(* ---------------------------------------------------------------------- *)
(* Supervisor::run (procs/supervisor.rs)                                   *)
(* ---------------------------------------------------------------------- *)

\* The command lines the harness gives the Supervisor: --max-starts absent,
\* or with a number.
MaxStartsArgs == {None} \cup {Some(n) : n \in {0, 1, 2, U8Max, U8Max + 1}}

\* What becomes of the executable: it starts and exits, or it cannot be
\* started.
Executables == {"exits", "missing"}

\* The exit statuses of the payload.
ExitStatuses == {0, 1}

\* args.value_of_lossy(MAX_STARTS) with default_value("1").
value_of_max_starts(arg) == IF arg = None THEN 1 ELSE arg[1]

\* u8::from_str_radix(s, 10) on the decimal text of n.
u8_from_str_radix(n) == [ok |-> n \in 0..U8Max, v |-> n % (U8Max + 1)]

in_range_inclusive(i, n) == i <= n

\* Whether i is in 0..n, the range the loop runs over.
in_range(i, n) == i < n

\* The state at the Supervisor's start.
InitSup ==
    /\ fdtab = [p \in {Parent, Peer} |-> IF p = Parent THEN StdTable ELSE NoTable]
    /\ ends = [i \in EndIds |-> NoEnd]
    /\ last = NoOp
    /\ chan = [c \in {Peer} |-> <<>>]
    /\ msgs = [p \in {Parent, Peer} |-> NoMsg]
    /\ held = {}
    /\ sentLog = <<>>
    /\ recvLog = <<>>
    /\ pc = [p \in {Parent, Peer} |-> "none"]
    /\ kids = [r \in {Peer} |-> NoKid]
    /\ reg = NoReg
    /\ exits = <<>>
    /\ logs = NoLogs
    /\ lead = NoLead
    /\ cli = NoCli
    /\ \E arg \in MaxStartsArgs, exe \in Executables :
          sup = [NoSup EXCEPT !.st = "args", !.arg = arg, !.exe = exe]

\* The command line parsed with the validator of max-starts, then the value
\* read at the start of run. A value that is not a u8 ends the process with
\* clap's error.
SupParse ==
    /\ sup.st = "args"
    /\ \E r \in {u8_from_str_radix(value_of_max_starts(sup.arg))} :
          sup' = IF r.ok THEN [sup EXCEPT !.st = "loop", !.max_restarts = r.v]
                 ELSE [sup EXCEPT !.st = "rejected"]
    /\ UNCHANGED <<fdtab, ends, last, chan, msgs, held, sentLog, recvLog, pc, kids, reg, exits, logs, lead, cli>>

\* The body of the loop up to the await: the command built and spawned; a
\* failure to spawn panics at the expect.
SupSpawn ==
    /\ sup.st = "loop"
    /\ sup.payload = "none"
    /\ in_range(sup.i, sup.max_restarts)
    /\ sup' = IF sup.exe = "missing" THEN [sup EXCEPT !.st = "panicked"]
              ELSE [sup EXCEPT !.payload = "running", !.starts = @ + 1]
    /\ UNCHANGED <<fdtab, ends, last, chan, msgs, held, sentLog, recvLog, pc, kids, reg, exits, logs, lead, cli>>

\* The child exits and the await on it returns its status, whatever it is:
\* the iteration is over.
PayloadExit ==
    /\ sup.payload = "running"
    /\ \E status \in ExitStatuses :
          sup' = [sup EXCEPT !.payload = "none", !.i = @ + 1, !.status = Some(status)]
    /\ UNCHANGED <<fdtab, ends, last, chan, msgs, held, sentLog, recvLog, pc, kids, reg, exits, logs, lead, cli>>

\* The loop over: run returns.
SupReturn ==
    /\ sup.st = "loop"
    /\ sup.payload = "none"
    /\ ~in_range(sup.i, sup.max_restarts)
    /\ sup' = [sup EXCEPT !.st = "done"]
    /\ UNCHANGED <<fdtab, ends, last, chan, msgs, held, sentLog, recvLog, pc, kids, reg, exits, logs, lead, cli>>

NextSup ==
    \/ SupParse
    \/ SupSpawn
    \/ PayloadExit
    \/ SupReturn

SpecSup == InitSup /\ [][NextSup]_vars

\* The Supervisor's task is polled whenever it can proceed, and the payload
\* is one that exits.
SpecSupLive == SpecSup /\ WF_vars(NextSup)

(* ---------------------------------------------------------------------- *)
(* The Logger with its forwarding tasks (procs/logger.rs)                   *)
(* ---------------------------------------------------------------------- *)

\* The lines a pipe carries, one after the other, how many are written to one pipe, how many
\* failed reads one task sees, how many receives on a closed control socket
\* are followed, how many messages the sender sends.
Lines == <<"x", "y">>

MaxLines == 2

MaxReadErrs == 1

MaxEofReads == 2

MaxLogSends == 2

\* The pipes of the harness: the standard outputs of the Leader and of the
\* Ipc, and who writes to each.
LogPipes == [leader |-> ChanId("leader", 4), ipc |-> ChanId("ipc", 4)]

\* The sender's ends: the write end of the Logger's control-in, the read
\* halves of the two pipes, the write half of the Ipc's standard input.
LogSenderEnds ==
    <<Obj("ctl", "Write", ChanId("logger", 1)),
      Obj("pipe", "Read", LogPipes["leader"]),
      Obj("pipe", "Read", LogPipes["ipc"]),
      Obj("pipe", "Write", ChanId("ipc", 3))>>

LogSenderTable == AllocSeq(StdTable, LogSenderEnds)

\* The Logger as it starts: its stdio and the read end of its control-in.
LoggerTable ==
    AllocSeq([n \in FdNums |->
                 IF n <= STDERR THEN ChildStd(StdTable, "logger", Streams[n + 1])
                 ELSE Closed],
             <<Obj("ctl", "Read", ChanId("logger", 1))>>)

\* The message that hands the read half of role's output to the Logger, with
\* the role's name and pid in the metadata or, for the Leader's, without
\* them.
LogPipeMessage(role, named) ==
    prepare_message(
        Metadata(IF named THEN Some(role) ELSE None,
                 IF named THEN Some(Pid[role]) ELSE None,
                 Pid[Parent], Some(Pid["logger"])),
        ChildStdout_to_message_kind(
            LogSenderTable.fds[IF role = "leader" THEN 2 ELSE 3]))

LogPipeMessages(role) == {LogPipeMessage(role, named) : named \in {TRUE, role # "leader"}}

\* The messages without a read pipe end: a write pipe end, a command.
LogOtherMessages ==
    {prepare_message(Metadata(Some("ipc"), Some(Pid["ipc"]), Pid[Parent],
                              Some(Pid["logger"])), kf) :
        kf \in {PipeEnd_to_message_kind(from_raw_fd("pipe", "Write", LogSenderTable.fds[4])),
                Command_to_message_kind("Command", Body("List", "-", "-", 0))}}

\* Whether the read half of role's output was sent already.
LogSent(role) ==
    \E i \in 1..Len(sentLog) :
        /\ KindOf(sentLog[i]) = "ReadPipeEnd"
        /\ sentLog[i] \in {m.data : m \in LogPipeMessages(role)}

\* The sender's send_msg on the Logger's control-in: each output at most
\* once, the other messages at any time.
LogSend ==
    /\ pc[Parent] = "run"
    /\ Len(sentLog) < MaxLogSends
    /\ \E m \in UNION {LogPipeMessages(role) :
                             role \in {r \in DOMAIN LogPipes : ~LogSent(r)}}
                \cup LogOtherMessages :
          Deliver(Parent, "logger", m)

\* The sender ends: its descriptors are closed, the write end of the
\* Logger's control-in among them.
LogSenderExit ==
    /\ pc[Parent] = "run"
    /\ pc' = Exited(Parent, pc)
    /\ fdtab' = [fdtab EXCEPT ![Parent] = NoTable]
    /\ held' = {h \in held : h.proc # Parent}
    /\ last' = Op("exit", Parent, None, FALSE, {})
    /\ UNCHANGED <<ends, chan, msgs, sentLog, recvLog, kids, reg, exits, sup, logs, lead,
                   cli>>

\* A process writes a line to its standard output.
WriteLine ==
    /\ \E role \in DOMAIN LogPipes : \E ch \in {LogPipes[role]} :
          /\ ch \in DOMAIN logs.pipes
          /\ logs.pipes[ch].wopen
          /\ Len(logs.pipes[ch].written) < MaxLines
          /\ logs' = [logs EXCEPT !.pipes[ch].written =
                                      Append(@, Lines[(Len(@) % Len(Lines)) + 1])]
    /\ UNCHANGED <<fdtab, ends, last, chan, msgs, held, sentLog, recvLog, pc, kids, reg,
                   exits, sup, lead, cli>>

\* A process ends: the write half of its standard output is closed.
WriterExit ==
    /\ \E role \in DOMAIN LogPipes : \E ch \in {LogPipes[role]} :
          /\ ch \in DOMAIN logs.pipes
          /\ logs.pipes[ch].wopen
          /\ logs' = [logs EXCEPT !.pipes[ch].wopen = FALSE]
    /\ UNCHANGED <<fdtab, ends, last, chan, msgs, held, sentLog, recvLog, pc, kids, reg,
                   exits, sup, lead, cli>>

\* A next_line that reports the end of the pipe as soon as the writer is
\* gone, whatever is still unread.
next_line_eof_early(p) ==
    IF ~p.wopen THEN [k |-> "eof", line |-> "-"]
    ELSE IF p.rd < Len(p.written) THEN [k |-> "line", line |-> p.written[p.rd + 1]]
    ELSE [k |-> "pending", line |-> "-"]

\* lines.next_line().await on pipe p when the read succeeds: Ok(Some(line))
\* with the next unread line, Ok(None) when nothing is unread and no write
\* end is open, and otherwise the task waits.
next_line(p) ==
    IF p.rd < Len(p.written) THEN [k |-> "line", line |-> p.written[p.rd + 1]]
    ELSE IF ~p.wopen THEN [k |-> "eof", line |-> "-"]
    ELSE [k |-> "pending", line |-> "-"]

\* The pipe task i reads: the open file behind its reader.
TaskPipe(i) == logs.tasks[i].ch

\* A task of the Logger that is in its loop.
Reading(i) ==
    /\ pc["logger"] = "run"
    /\ i \in 1..Len(logs.tasks)
    /\ logs.tasks[i].st = "reading"
    /\ fdtab["logger"][logs.tasks[i].fd].kind = "pipe"
    /\ TaskPipe(i) \in DOMAIN logs.pipes

\* An AsyncPipeEnd going out of scope: the numbers close(2) is called on.
\* The struct holds the number as a plain RawFd and has no Drop.
AsyncPipeEnd_drop(fd) == {}

\* One turn of the loop of print_messages_to_stdout whose read succeeds: a
\* line is printed as LOG:<name>[<pid>]: <line>; at the end of the pipe the
\* loop is left, <pid> LOGGING SHUTDOWN is printed and the task returns,
\* which drops the reader.
TaskNextLine ==
    /\ \E i \in 1..Len(logs.tasks) :
        /\ Reading(i)
        /\ \E task \in {logs.tasks[i]} : \E r \in {next_line(logs.pipes[TaskPipe(i)])} :
            /\ r.k # "pending"
            /\ IF r.k = "line"
               THEN /\ logs' = [logs EXCEPT
                                   !.pipes[TaskPipe(i)].rd = @ + 1,
                                   !.out[i] = Append(@, OutLine("LOG:{}[{}]: {}", task.name,
                                                                task.pid, r.line))]
                    /\ UNCHANGED <<fdtab, held, last>>
               ELSE /\ logs' = [logs EXCEPT
                                   !.tasks[i].st = "done",
                                   !.out[i] = Append(@, OutLine("{} LOGGING SHUTDOWN", "-",
                                                                task.pid, "-"))]
                    /\ fdtab' = [fdtab EXCEPT !["logger"] =
                                     OsCloseAll(@, AsyncPipeEnd_drop(task.fd))]
                    /\ held' = {h \in held : ~(h.proc = "logger" /\ h.fd = task.fd)}
                    /\ last' = Op("drop", "pipe", Some(task.fd), FALSE,
                                  AsyncPipeEnd_drop(task.fd))
    /\ UNCHANGED <<ends, chan, msgs, sentLog, recvLog, pc, kids, reg, exits, sup, lead, cli>>

\* The errors a read of the pipe may fail with.
ReadErrors == {"WouldBlock", "Other"}

\* One turn of the loop of print_messages_to_stdout whose read fails:
\* WouldBlock prints LOG: WOULD_BLOCK, any other error prints one line on
\* the standard error; the loop goes on in both cases. others is history:
\* the reads of the task that failed with another error than WouldBlock.
TaskReadError ==
    /\ \E i \in 1..Len(logs.tasks) : \E e \in ReadErrors :
        /\ Reading(i)
        /\ logs.tasks[i].errs < MaxReadErrs
        /\ logs' = [logs EXCEPT
                       !.tasks[i].errs = @ + 1,
                       !.tasks[i].others = IF e = "WouldBlock" THEN @ ELSE @ + 1,
                       !.out[i] = IF e = "WouldBlock"
                                  THEN Append(@, OutLine("LOG: WOULD_BLOCK", "-", 0, "-"))
                                  ELSE @]
    /\ UNCHANGED <<fdtab, ends, last, chan, msgs, held, sentLog, recvLog, pc, kids, reg,
                   exits, sup, lead, cli>>

\* Whether a write end of control socket ch is open in some process.
WriteEndOpen(ch) ==
    \E p \in DOMAIN fdtab : \E n \in FdNums : fdtab[p][n] = Obj("ctl", "Write", ch)

\* One turn of the loop of Logger::run when nothing is queued and no write
\* end of the control-in is open: recvmsg(2) returns no byte, the buffer of
\* recv_msg is decoded as it was initialised, the Err is printed and the loop
\* continues. eofs is history: the number of these turns.
LoggerRecvClosed ==
    /\ pc["logger"] = "run"
    /\ chan["logger"] = <<>>
    /\ ~WriteEndOpen(ChanId("logger", 1))
    /\ logs.eofs < MaxEofReads
    /\ \E r \in {recv_msg(<<Segment(<<>>, <<>>)>>, fdtab["logger"])} :
        /\ last' = Op(IF r.err = "" THEN "recv" ELSE "recv_err", KindOf(r.msg.data), None,
                      FALSE, {})
        /\ IF r.err = ""
           THEN /\ pc' = Exited("logger", pc)
                /\ exits' = Append(exits, ExitOf("logger"))
           ELSE UNCHANGED <<pc, exits>>
    /\ logs' = [logs EXCEPT !.eofs = @ + 1]
    /\ UNCHANGED <<fdtab, ends, chan, msgs, held, sentLog, recvLog, kids, reg, sup, lead,
                   cli>>

InitLog ==
    /\ fdtab = [p \in TreeProcs |->
                   IF p = Parent THEN LogSenderTable.t
                   ELSE IF p = "logger" THEN LoggerTable.t
                   ELSE NoTable]
    /\ ends = [i \in EndIds |-> NoEnd]
    /\ last = NoOp
    /\ chan = [c \in {"logger"} |-> <<>>]
    /\ msgs = [p \in TreeProcs |-> NoMsg]
    /\ held = {AsyncEnd("logger", "AsyncCtlEnd", "Read", LoggerTable.fds[1]),
               AsyncEnd(Parent, "AsyncCtlEnd", "Write", LogSenderTable.fds[1])}
    /\ sentLog = <<>>
    /\ recvLog = <<>>
    /\ pc = [p \in TreeProcs |-> IF p \in {Parent, "logger"} THEN "run" ELSE "none"]
    /\ kids = [r \in TreeProcs \ {Parent} |-> NoKid]
    /\ reg = NoReg
    /\ exits = <<>>
    /\ sup = NoSup
    /\ logs = [NoLogs EXCEPT
                  !.pipes = [ch \in {LogPipes[r] : r \in DOMAIN LogPipes} |->
                                [written |-> <<>>, rd |-> 0, wopen |-> TRUE]]]
    /\ lead = NoLead
    /\ cli = NoCli

NextLog ==
    \/ LogSend
    \/ LogSenderExit
    \/ WriteLine
    \/ WriterExit
    \/ LoggerRecv
    \/ LoggerRecvClosed
    \/ TaskNextLine
    \/ TaskReadError

SpecLog == InitLog /\ [][NextLog]_vars

(* ---------------------------------------------------------------------- *)
(* Pipe / Control pairs, PipeEnd::dup and PipeEnd::replace (pipe.rs,       *)
(* control.rs)                                                            *)
(* ---------------------------------------------------------------------- *)

\* dup2(2): EBADF (no change) when the old number is not open, nothing to do
\* when both numbers are the same, else the new number is made to refer to the
\* old number's open file.
dup2(t, oldfd, newfd) ==
    IF oldfd \notin FdNums \/ newfd \notin FdNums THEN [ok |-> FALSE, t |-> t]
    ELSE IF t[oldfd] = Closed THEN [ok |-> FALSE, t |-> t]
    ELSE [ok |-> TRUE, t |-> [t EXCEPT ![newfd] = t[oldfd]]]

\* PipeEnd::dup on descriptor table t: close(target_fd)?, then
\* dup2(self.raw_fd, target_fd)?, then a PipeEnd over target_fd. close(2) of
\* a number that is not open fails with EBADF, which the ? returns.
PipeEnd_dup(t, e, target_fd) ==
    IF target_fd \notin FdNums \/ t[target_fd] = Closed
    THEN [ok |-> FALSE, t |-> t, closed |-> {}, end |-> NoEnd]
    ELSE With(dup2(OsClose(t, target_fd), e.raw_fd, target_fd), LAMBDA d :
         [ok |-> d.ok, t |-> d.t, closed |-> {target_fd},
          end |-> IF d.ok THEN from_raw_fd(e.kind, e.dir, target_fd) ELSE NoEnd])

\* A replace that leaves the number in the source.
PipeEnd_replace_keeps(t, e, target_fd) ==
    IF e.raw_fd = target_fd \/ e.raw_fd = NULL
    THEN [ok |-> TRUE, t |-> t, closed |-> {}, end |-> e]
    ELSE With(PipeEnd_dup(t, e, target_fd), LAMBDA d :
         [ok |-> d.ok, t |-> d.t, closed |-> d.closed, end |-> e])

\* PipeEnd::replace on descriptor table t, up to the drop of self: a source
\* already on target_fd is forgotten and nothing else is done, a source
\* without a number is left alone, else target_fd is closed and the source
\* duplicated onto it as in dup, and the source is forgotten. On an Err the
\* source is not forgotten.
PipeEnd_replace(t, e, target_fd) ==
    IF e.raw_fd = target_fd
    THEN [ok |-> TRUE, t |-> t, closed |-> {}, end |-> PipeEnd_forget(e)]
    ELSE IF e.raw_fd = NULL
    THEN [ok |-> TRUE, t |-> t, closed |-> {}, end |-> e]
    ELSE With(PipeEnd_dup(t, e, target_fd), LAMBDA d :
         [ok |-> d.ok, t |-> d.t, closed |-> d.closed,
          end |-> IF d.ok THEN PipeEnd_forget(e) ELSE e])

\* Pipe::new / Control::new on descriptor table t: the two numbers of
\* pipe(2) or socketpair(2), one end over each.
Pair_new(t, kind) ==
    With(LowestFree(t), LAMBDA r :
    With(AllocSeq(t, <<Obj(kind, "Read", r), Obj(kind, "Write", r)>>), LAMBDA a :
         [t |-> a.t, read |-> from_raw_fd(kind, "Read", a.fds[1]),
          write |-> from_raw_fd(kind, "Write", a.fds[2])]))

\* A take_reader that keeps the write end open.
take_reader_keeps(pair) == [end |-> pair.read, closed |-> {}]

\* Pipe::take_reader / Control::take_reader: the read end is moved out of the
\* pair and the write end, left in it, is dropped.
take_reader(pair) == [end |-> pair.read, closed |-> drop(pair.write)]

\* Pipe::take_writer / Control::take_writer.
take_writer(pair) == [end |-> pair.write, closed |-> drop(pair.read)]

\* The numbers the harness duplicates onto: a standard stream and numbers a
\* pair may or may not occupy.
DupTargets == {STDIN, 3, 4, 5}

\* Pipe::new() or Control::new() followed by take_reader or take_writer.
Take(kind, which) ==
    /\ FreeEnds # {}
    /\ Cardinality(FreeFds(fdtab[Parent])) >= 2
    /\ \E p \in {Pair_new(fdtab[Parent], kind)} :
       \E r \in {IF which = "take_reader" THEN take_reader(p) ELSE take_writer(p)} :
        /\ fdtab' = [fdtab EXCEPT ![Parent] = OsCloseAll(p.t, r.closed)]
        /\ ends' = [ends EXCEPT ![LowestFreeEnd(FreeEnds)] = r.end]
        /\ last' = Op(which, kind, Some(r.end.raw_fd), FALSE, r.closed)
    /\ UNCHANGED msgvars

PairTakeReader ==
    /\ \E kind \in {"pipe", "ctl"} : Take(kind, "take_reader")

PairTakeWriter ==
    /\ \E kind \in {"pipe", "ctl"} : Take(kind, "take_writer")

\* end.dup(target_fd) on the PipeEnd in slot i; the PipeEnd returned is kept.
Dup(i, target_fd) ==
    /\ ends[i].st = "live"
    /\ ends[i].kind = "pipe"
    /\ FreeEnds # {}
    /\ \E d \in {PipeEnd_dup(fdtab[Parent], ends[i], target_fd)} :
        /\ fdtab' = [fdtab EXCEPT ![Parent] = d.t]
        /\ ends' = IF d.ok THEN [ends EXCEPT ![LowestFreeEnd(FreeEnds)] = d.end] ELSE ends
        /\ last' = Op(IF d.ok THEN "dup" ELSE "dup_err", "pipe", Some(ends[i].raw_fd),
                      ends[i].forgot, d.closed)
    /\ UNCHANGED msgvars

EndDup ==
    /\ \E i \in EndIds, target_fd \in DupTargets : Dup(i, target_fd)

\* end.replace(target_fd) on the PipeEnd in slot i: self is consumed, and
\* dropped as replace left it.
Replace(i, target_fd) ==
    /\ ends[i].st = "live"
    /\ ends[i].kind = "pipe"
    /\ \E d \in {PipeEnd_replace(fdtab[Parent], ends[i], target_fd)} :
       \E S \in {PipeEnd_drop(d.end)} :
        /\ fdtab' = [fdtab EXCEPT ![Parent] = OsCloseAll(d.t, S)]
        /\ ends' = [ends EXCEPT ![i] =
                        [NoEnd EXCEPT !.st = "dropped",
                                      !.closes = ends[i].closes + Cardinality(S)]]
        /\ last' = Op(IF d.ok THEN "replace" ELSE "replace_err", "pipe",
                      Some(ends[i].raw_fd), ends[i].forgot, d.closed \cup S)
    /\ UNCHANGED msgvars

EndReplace ==
    /\ \E i \in EndIds, target_fd \in DupTargets : Replace(i, target_fd)

NextPipe ==
    \/ PipeNew
    \/ ControlNew
    \/ PairTakeReader
    \/ PairTakeWriter
    \/ EndDup
    \/ EndReplace
    \/ EndClose
    \/ EndDrop

SpecPipe == InitEnd /\ [][NextPipe]_vars

(* ---------------------------------------------------------------------- *)
(* Properties of the endpoint harness (SpecEnd)                            *)
(* ---------------------------------------------------------------------- *)

LiveEnds == {i \in EndIds : ends[i].st = "live"}

\* C4: a message dropped while it still holds a descriptor d issues close(d)
\* exactly once when d >= 3, after which d is not open, and issues no close
\* at all when d is 0, 1, 2 or negative.
C4_MessageDropClosesOnce ==
    (last.op = "drop" /\ last.kind = "msg" /\ last.fd # None) =>
        /\ last.closed = (IF last.fd[1] > STDERR THEN {last.fd[1]} ELSE {})
        /\ msgs[Parent].closes = (IF last.fd[1] > STDERR THEN 1 ELSE 0)
        /\ last.fd[1] > STDERR => fdtab[Parent][last.fd[1]] = Closed

\* A message built from a pipe or control end of a fresh pair was dropped and
\* its descriptor closed.
C4_Witness ==
    /\ last.op = "drop" /\ last.kind = "msg" /\ last.fd # None
    /\ last.fd[1] > STDERR
    /\ msgs[Parent].closes = 1

\* C6 (as stated): over an endpoint's life, whatever close() calls precede
\* its drop, close(2) is issued on its descriptor at most once.
C6_ClosedExactlyOnce ==
    \A i \in EndIds : ends[i].closes <= 1

\* C7: once forget() has been called on an endpoint, neither close() nor its
\* drop issues a close(2), and the descriptor table is left as it was.
C7_ForgetThenNoClosure ==
    /\ (last.op \in {"close", "drop"} /\ last.kind \in {"pipe", "ctl"} /\ last.forgot)
           => last.closed = {}
    /\ \A i \in LiveEnds : ends[i].forgot => close(ends[i]) = {} /\ drop(ends[i]) = {}

\* An endpoint of a fresh pair was forgotten and then dropped: every endpoint
\* is gone and a descriptor of the pair is still open.
C7_Witness ==
    /\ last.op = "drop" /\ last.kind \in {"pipe", "ctl"} /\ last.forgot
    /\ LiveEnds = {}
    /\ OpenFds(fdtab[Parent]) \ (STDIN..STDERR) # {}

\* C8: the drop of a pipe end, a control end or a message that holds 0, 1 or
\* 2 issues no close(2); the drop of one that holds d >= 3 issues close(d),
\* after which d is not open.
C8_DropSparesStdStreams ==
    (last.op = "drop" /\ last.fd # None) =>
        /\ last.fd[1] \in STDIN..STDERR => last.closed = {}
        /\ last.fd[1] > STDERR =>
               last.closed = {last.fd[1]} /\ fdtab[Parent][last.fd[1]] = Closed

\* A message that holds a standard stream was dropped, and an endpoint whose
\* descriptor d >= 3 was closed once has been dropped.
C8_Witness ==
    /\ last.op = "drop" /\ last.kind = "msg" /\ last.fd # None
    /\ last.fd[1] \in STDIN..STDERR
    /\ \E i \in EndIds : ends[i].st = "dropped" /\ ends[i].closes = 1

(* ---------------------------------------------------------------------- *)
(* Properties of pairs, dup and replace (SpecPipe)                         *)
(* ---------------------------------------------------------------------- *)

\* The endpoint in slot i holds a number that is open.
HoldsOpen(i) ==
    /\ ends[i].raw_fd \in FdNums
    /\ fdtab[Parent][ends[i].raw_fd] # Closed

\* C33: dup(target) on an endpoint that holds an open descriptor d succeeds
\* whether target is open or not; afterwards target refers to what d refers
\* to, d is open as before and still the original endpoint's, and the
\* endpoint returned is bound to target.
C33_DupSucceeds ==
    [][\A i \in EndIds, target_fd \in DupTargets :
        (Dup(i, target_fd) /\ HoldsOpen(i))
        => /\ last'.op = "dup"
           /\ fdtab'[Parent][target_fd] = fdtab[Parent][ends[i].raw_fd]
           /\ fdtab'[Parent][ends[i].raw_fd] = fdtab[Parent][ends[i].raw_fd]
           /\ ends'[i] = ends[i]
           /\ \E j \in EndIds :
               /\ ends[j].st = "none"
               /\ ends'[j].st = "live"
               /\ ends'[j].raw_fd = target_fd]_vars

\* C34: a replace(target) that succeeds on an endpoint holding an open
\* descriptor consumes the endpoint without its drop closing anything. When
\* the descriptor is target itself the descriptor table is left as it was;
\* otherwise target refers afterwards to what the source referred to and
\* every other number, the source's among them, is as before.
C34_ReplaceMovesSource ==
    [][last'.op = "replace" =>
       \A i \in EndIds, target_fd \in DupTargets :
        (HoldsOpen(i) /\ Replace(i, target_fd))
        => /\ ends'[i].st = "dropped"
           /\ ends'[i].closes = ends[i].closes
           /\ IF ends[i].raw_fd = target_fd
              THEN fdtab' = fdtab /\ last'.closed = {}
              ELSE /\ fdtab'[Parent][target_fd] = fdtab[Parent][ends[i].raw_fd]
                   /\ \A n \in FdNums \ {target_fd} :
                          fdtab'[Parent][n] = fdtab[Parent][n]]_vars

\* A pipe end above the standard streams has been moved onto stdin, which
\* was open and was closed first: stdin and the source's number, still open,
\* refer to the same end of the pipe, and the endpoint is gone.
C34_Witness ==
    /\ last.op = "replace"
    /\ last.closed = {STDIN}
    /\ last.fd # None
    /\ last.fd[1] > STDERR
    /\ fdtab[Parent][STDIN].kind = "pipe"
    /\ fdtab[Parent][last.fd[1]] = fdtab[Parent][STDIN]
    /\ \E i \in EndIds : ends[i].st = "dropped" /\ ends[i].closes = 0

\* The live endpoints in slots i and j are the two ends of one pair.
Mates(i, j) ==
    /\ ends[i].st = "live"
    /\ ends[j].st = "live"
    /\ HoldsOpen(i)
    /\ HoldsOpen(j)
    /\ ends[i].raw_fd # ends[j].raw_fd
    /\ fdtab[Parent][ends[i].raw_fd].ch = fdtab[Parent][ends[j].raw_fd].ch
    /\ fdtab[Parent][ends[i].raw_fd].kind = fdtab[Parent][ends[j].raw_fd].kind
    /\ fdtab[Parent][ends[i].raw_fd].dir # fdtab[Parent][ends[j].raw_fd].dir

\* What take_reader or take_writer (which) is to leave of a new pair of the
\* kind: the end of direction dir returned and open, the other end closed
\* (its drop spares a number that is a standard stream's).
TakeLeaves(kind, which, dir) ==
    Take(kind, which) =>
        \E p \in {Pair_new(fdtab[Parent], kind)} :
        \E kept \in {IF dir = "Read" THEN p.read ELSE p.write} :
        \E other \in {IF dir = "Read" THEN p.write ELSE p.read} :
            /\ \E j \in EndIds : ends[j].st = "none" /\ ends'[j] = kept
            /\ \A j \in EndIds : ends[j].st = "none" => ends'[j] # other
            /\ fdtab'[Parent][kept.raw_fd] = Obj(kind, dir, p.t[kept.raw_fd].ch)
            /\ other.raw_fd > STDERR => fdtab'[Parent][other.raw_fd] = Closed

C1_KindAndDescriptorAgree ==
    /\ (last.op = "send" /\ last.kind \in EndKinds) => last.fd # None
    /\ \A i \in 1..Len(chan[Peer]) :
           KindOf(deserialize(chan[Peer][i].bytes).data) \in EndKinds
               => chan[Peer][i].rights # None
    /\ (last.op = "recv" /\ last.kind \in EndKinds) =>
           /\ msgs[Peer].fd # None
           /\ fdtab[Peer][msgs[Peer].fd[1]] # Closed
    /\ \A p \in DOMAIN msgs :
           (msgs[p].st = "live" /\ KindOf(msgs[p].data) \in CommandKinds)
               => msgs[p].fd = None

\* The receiver holds an endpoint-kind message with its descriptor, and a
\* command-kind message was received before it.
C1_Witness ==
    /\ last.op = "recv" /\ last.kind \in EndKinds
    /\ msgs[Peer].st = "live" /\ msgs[Peer].fd # None
    /\ \E i \in 1..Len(recvLog) : KindOf(recvLog[i]) \in CommandKinds

\* C2 (as stated): after a successful send of an endpoint kind the descriptor
\* that was sent is no longer open in the sending process.
C2_SenderCopyClosed ==
    (last.op = "send" /\ last.kind \in EndKinds) =>
        fdtab[Parent][last.fd[1]] = Closed

\* C3 (as stated): the envelopes recv_msg has returned are the envelopes
\* sent, in order, one per call: none merged into another, none lost.
C3_OneMessagePerReceive ==
    /\ Len(recvLog) + Len(chan[Peer]) = Len(sentLog)
    /\ recvLog = SubSeq(sentLog, 1, Len(recvLog))

\* The sum of f over S.
RECURSIVE Sum(_, _)
Sum(f, S) ==
    IF S = {} THEN 0
    ELSE LET x == CHOOSE y \in S : TRUE IN f[x] + Sum(f, S \ {x})

Procs == DOMAIN fdtab

\* The values of process p that own a descriptor of a pipe or a control pair.
Owners(p) ==
    Cardinality({i \in LiveEnds : p = Parent /\ ends[i].raw_fd > STDERR})
    + (IF msgs[p].st = "live" /\ msgs[p].fd # None /\ msgs[p].fd[1] > STDERR
       THEN 1 ELSE 0)
    + Cardinality({h \in held : h.proc = p})

OpenCount(p) == Cardinality(OpenFds(fdtab[p]))

StdInstalled(p) == Cardinality({n \in STDIN..STDERR : fdtab[p][n] # Closed})

InFlight == Cardinality({i \in 1..Len(chan[Peer]) : chan[Peer][i].rights # None})

\* C5 (as stated): the open descriptors of the tree, with those in flight,
\* are the two ends of each live pipe and control pair, each owned by one
\* value, the descriptors in flight, and the installed standard streams.
C5_DescriptorConservation ==
    Sum([p \in Procs |-> OpenCount(p)], Procs) + InFlight
        = Sum([p \in Procs |-> Owners(p)], Procs) + InFlight
          + Sum([p \in Procs |-> StdInstalled(p)], Procs)

\* C9 (as stated): an envelope of a command kind that arrives with a
\* descriptor makes recv_msg fail, and the descriptor is not left open in the
\* receiver.
C9_StrayDescriptorRejected ==
    (last.op \in {"recv", "recv_err"} /\ last.kind \in CommandKinds /\ last.fd # None)
        => (last.op = "recv_err" /\ fdtab[Peer][last.fd[1]] = Closed)


\* C37: when send_msg has returned an error for a message that carried a
\* descriptor, the descriptor is not left open without an owner in the
\* sender: it is closed, or an endpoint that will close it holds it.
C37_NoLeakOnSendError ==
    (last.op = "send_err" /\ last.fd # None /\ last.fd[1] > STDERR)
        => \/ fdtab[Parent][last.fd[1]] = Closed
           \/ \E i \in EndIds : ends[i].st = "live" /\ ends[i].raw_fd = last.fd[1]

\* C36: a step that calls one of the four take accessors leaves the kind of
\* every message as it was; it detaches a descriptor from a message only if
\* the message had one and its kind is the accessor's, and then hands out one
\* end over that number to the caller; it hands out nothing otherwise. A
\* message whose descriptor was handed out has none left to hand out again.
C36_DescriptorTakenOnceByMatchingAccessor ==
    [][last'.op \in DOMAIN Accessors =>
        /\ \A p \in {Parent, Peer} :
            /\ msgs'[p].data.kind = msgs[p].data.kind
            /\ msgs'[p].fd # msgs[p].fd =>
                /\ msgs[p].fd # None
                /\ msgs'[p].fd = None
                /\ msgs[p].data.kind # None
                /\ msgs[p].data.kind[1].k = Accessors[last'.op].k
                /\ \E h \in held' :
                    /\ h.proc = p
                    /\ h.fd = msgs[p].fd[1]
                    /\ h.type = Accessors[last'.op].type
                    /\ held' = held \cup {h}
        /\ held' # held => \E p \in {Parent, Peer} : msgs'[p].fd # msgs[p].fd]_vars

\* The Logger peer has taken the read pipe end out of a message it received
\* and has then called an accessor of another kind on the same message, which
\* returned nothing.
C36_Witness ==
    /\ last.op = "take_write_ctl_end"
    /\ last.kind = "-"
    /\ msgs[Peer].st = "live"
    /\ msgs[Peer].fd = None
    /\ KindOf(msgs[Peer].data) = "ReadPipeEnd"
    /\ \E h \in held : h.proc = Peer /\ h.type = "AsyncPipeEnd"
    /\ msgs[Parent].st # "live"


(* ---------------------------------------------------------------------- *)
(* Properties of the tree (Spec)                                           *)
(* ---------------------------------------------------------------------- *)

\* C10 (as stated): with the handshake messages sent in the order logger,
\* leader, launcher, no handshake read of the Ipc fails, and an Ipc that has
\* left the handshake is in its loop holding (pid, end) for all three roles.
C10_HandshakeAccepted ==
    /\ reg.err = ""
    /\ pc["ipc"] = "steady" =>
           reg.logger # None /\ reg.leader # None /\ reg.launcher # None

\* The envelopes init has sent to the Ipc / to the Logger, in order.
HandshakeSent == SelectSeq(sentLog, LAMBDA d : d.meta.target_pid = Some(Pid["ipc"]))

OutputSent == SelectSeq(sentLog, LAMBDA d : d.meta.target_pid = Some(Pid["logger"]))

Spawned(r) == pc[r] # "none"

C13_OutputHandedToLogger ==
    LET want == <<"leader", "leader", "launcher", "launcher", "ipc", "ipc">>
    IN /\ Len(OutputSent) <= 6
       /\ \A i \in 1..Len(OutputSent) :
            /\ OutputSent[i].kind = Some(Kind("ReadPipeEnd", NoBody))
            /\ OutputSent[i].meta.proc_name = Some(want[i])
            /\ OutputSent[i].meta.pid = Some(Pid[want[i]])
            /\ Spawned(want[i])
       /\ Spawned("leader") => Spawned("logger")
       /\ Spawned("launcher") => Spawned("leader") /\ Len(OutputSent) >= 2
       /\ Spawned("ipc") => Spawned("launcher") /\ Len(OutputSent) >= 4
       /\ Len(OutputSent) < 2 => ~Spawned("launcher")
       /\ Len(OutputSent) < 4 => ~Spawned("ipc")
       /\ HandshakeSent # <<>> => Len(OutputSent) = 6
       /\ (last.op = "send" /\ last.kind = "ReadPipeEnd") => last.fd # None

\* The six envelopes are with the Logger or on their way, and the Logger's
\* control end has been sent to the Ipc.
C13_Witness ==
    /\ Len(OutputSent) = 6
    /\ HandshakeSent # <<>>
    /\ HandshakeSent[1].meta.proc_name = Some("logger")

\* C14 (as stated): when the first root child to end does so after the
\* wiring, the error init's select returns names that child.
C14_SelectNamesFirstExit ==
    (last.op = "select" /\ exits # <<>> /\ exits[1].wired) =>
        last.kind = exits[1].role

\* C15: once init has ended, no root role it spawned is running.
C15_NoRoleOutlivesInit ==
    pc[Parent] = "exited" =>
        \A i \in 1..Len(Roles) : pc[Roles[i]] \in {"none", "exited"}

\* init has ended at its select after one role ended by itself; the other
\* three had been spawned and ended with init.
C15_Witness ==
    /\ pc[Parent] = "exited"
    /\ last.op = "select"
    /\ Len(exits) = 1
    /\ \A i \in 1..Len(Roles) : pc[Roles[i]] = "exited"

\* C20 (as stated): the command line of every spawned role carries
\* --control-in exactly when the role has a control-in and --control-out
\* exactly when it has a control-out.
C20_ArgvCarriesControlEnds ==
    \A r \in DOMAIN kids :
        kids[r].st = "live" =>
            /\ (kids[r].argv.control_in # None) <=> HasControlIn[r]
            /\ (kids[r].argv.control_out # None) <=> HasControlOut[r]


\* C21: right after new_process(role) returned, the read half of the role's
\* control pair, the one named by --control-in, is open in the child as the
\* read end of that pair (it was open in the parent when the child was
\* launched), it is closed in the parent and was closed by the return of
\* new_process, and the write half is open in the parent and is the control
\* end of the handle returned.
C21_ChildHalfClosedAfterLaunch ==
    last.op = "new_process" =>
        \E role \in {last.kind} : \E read \in {last.fd[1]} :
            /\ fdtab[role][read] = Obj("ctl", "Read", ChanId(role, 1))
            /\ read \in last.closed
            /\ fdtab[Parent][read] = Closed
            /\ \E write \in FdNums :
                  /\ fdtab[Parent][write] = Obj("ctl", "Write", ChanId(role, 1))
                  /\ Some(write) = (IF role = "leader" THEN kids[role].control
                                    ELSE kids[role].ctl)

C21_Witness ==
    /\ last.op = "new_process"
    /\ last.kind = "ipc"
    /\ kids["ipc"].st = "live"
    /\ fdtab[Parent][last.fd[1]] = Closed

\* C38: the descriptor send_output_to_logger borrows from the child's stdout
\* or stderr handle for a message has one closer, the handle: it is open when
\* borrowed, the message sent does not close it, and it is closed once, when
\* the handles are dropped at the return of the function after the second
\* send.
C38_BorrowedDescriptorClosedOnce ==
    [][InitSendOutput =>
        \E fd \in {kids[Cur.role][Cur.op][1]} :
            /\ fdtab[Parent][fd] # Closed
            /\ last'.op = "send"
            /\ last'.fd = Some(fd)
            /\ IF Cur.op = "stdout"
               THEN /\ last'.closed = {}
                    /\ fdtab'[Parent][fd] = fdtab[Parent][fd]
                    /\ kids'[Cur.role].stdout = Some(fd)
               ELSE \E out \in {kids[Cur.role].stdout[1]} :
                    /\ out # fd
                    /\ last'.closed = {out, fd}
                    /\ fdtab[Parent][out] # Closed
                    /\ fdtab'[Parent][out] = Closed
                    /\ fdtab'[Parent][fd] = Closed
                    /\ kids'[Cur.role].stdout = None
                    /\ kids'[Cur.role].stderr = None]_vars

\* init has sent the Leader's stdout and stderr to the Logger and has
\* returned from send_output_to_logger: both numbers are closed, and the
\* handles are gone from the Child.
C38_Witness ==
    /\ pc[Parent] = "spawn_launcher"
    /\ last.op = "send"
    /\ last.kind = "ReadPipeEnd"
    /\ Cardinality(last.closed) = 2
    /\ \A n \in last.closed : fdtab[Parent][n] = Closed
    /\ kids["leader"].stdout = None
    /\ kids["leader"].stderr = None
    /\ Len(sentLog) = 2

\* The tree with every process that can take a step taking one in the end.
SpecLive == Spec /\ WF_vars(Next)

\* Every run of init ends.
InitTerminates == <>(pc[Parent] = "exited")

\* C40: init never returns success, and the step in which it ends is the
\* return of the error of its select, which names a root child that has
\* exited.
C40_InitEndsByUnexpectedExit ==
    [][(pc[Parent] # "exited" /\ pc'[Parent] = "exited")
       => /\ last'.op = "select"
          /\ last'.kind \in {Roles[i] : i \in 1..Len(Roles)}
          /\ pc[last'.kind] = "exited"]_vars

(* ---------------------------------------------------------------------- *)
(* Properties of the Ipc harness (SpecIpc)                                 *)
(* ---------------------------------------------------------------------- *)

\* The role name and the control end the handshake is to see at each
\* position.
HandshakeOrder ==
    [get_logger |-> [name |-> "logger", k |-> "WriteCtlEnd"],
     get_leader |-> [name |-> "leader", k |-> "ReadCtlEnd"],
     get_launcher |-> [name |-> "launcher", k |-> "WriteCtlEnd"]]

\* The envelope the next read of socket c by the Ipc returns.
Arriving(c) == recv_msg(chan[c], fdtab["ipc"]).msg.data

\* The step is a read by the Ipc of socket c.
IpcReads(c) == chan[c] # <<>> /\ Len(chan'[c]) < Len(chan[c])

\* C11: a handshake message whose role name or whose control end's direction
\* is wrong for its position makes the Ipc fail with the handshake error and
\* end, so that it reads no later handshake message.
C11_WrongRegistrationRejected ==
    [][(/\ pc["ipc"] \in DOMAIN HandshakeOrder
        /\ IpcReads("ipc")
        /\ \/ Arriving("ipc").meta.proc_name # Some(HandshakeOrder[pc["ipc"]].name)
           \/ KindOf(Arriving("ipc")) # HandshakeOrder[pc["ipc"]].k)
       => (pc'["ipc"] = "exited" /\ reg'.err # "")]_vars

\* C16: the Ipc enters the arm of a command only in the step in which it
\* has received, as the message after the command, a message carrying a
\* write control end; while it holds a command and waits, it has done nothing
\* for it.
C16_NoActionBeforeResponseChannel ==
    /\ last.op = "handle" =>
          /\ Len(recvLog) >= 2
          /\ KindOf(recvLog[Len(recvLog)]) = "WriteCtlEnd"
          /\ KindOf(recvLog[Len(recvLog) - 1]) = "Command"
          /\ recvLog[Len(recvLog) - 1].kind[1].body.c = last.kind
          /\ last.fd # None
    /\ reg.cmd # None =>
          /\ pc["ipc"] = "await_ctl"
          /\ last.op # "handle"
          /\ KindOf(recvLog[Len(recvLog)]) = "Command"

\* The Ipc has entered the List arm after a List and a response channel, and
\* is back at the top of its loop.
C16_Witness ==
    /\ last.op = "handle"
    /\ last.kind = "List"
    /\ last.fd # None
    /\ pc["ipc"] = "steady"
    /\ reg.turn = 1

\* The response channel the Leader sends, as an open file.
ResponseChannel == LeaderEnds[2]

\* C17: once the Leader has sent a List and then the response channel, and
\* the Ipc has read all that was sent, the Ipc has answered the List (one
\* ListItem per supervised child, of which it has none) and has closed the
\* response channel.
C17_ListAnswered ==
    (/\ Len(sentLog) = 5
     /\ KindOf(sentLog[4]) = "Command"
     /\ sentLog[4].kind[1].body.c = "List"
     /\ KindOf(sentLog[5]) = "WriteCtlEnd"
     /\ chan["leader"] = <<>>)
    => /\ last.op = "handle"
       /\ last.kind = "List"
       /\ \A n \in FdNums : fdtab["ipc"][n] # ResponseChannel

\* The pid a message on socket c is to come from.
ExpectedPeer == [ipc |-> Pid[Parent], leader |-> Pid["leader"]]

\* C18: a message whose source pid is not the pid of the expected peer of the
\* socket it came on is discarded: the Ipc retains nothing from it and does
\* nothing for it.
C18_ForeignSenderDiscarded ==
    [][\A c \in DOMAIN chan :
          (/\ pc["ipc"] # "exited"
           /\ IpcReads(c)
           /\ Arriving(c).meta.source_pid # ExpectedPeer[c])
          => /\ reg'.logger = reg.logger
             /\ reg'.leader = reg.leader
             /\ reg'.launcher = reg.launcher
             /\ reg'.cmd = reg.cmd
             /\ last'.op # "handle"]_vars

\* A step of the Ipc itself.
IpcStep == IpcHandshake \/ IpcRecvCommand \/ IpcRecvCtl

\* C31: after the handshake a registration that has arrived on the Ipc's own
\* control-in is consumed by the Ipc and recorded in both of its tables:
\* while one is waiting the Ipc has a step to take, and once none is waiting
\* the tables hold an entry for each one sent, pid to name and name to pid.
C31_RegistrationConsumed ==
    pc["ipc"] \in {"steady", "await_ctl"} =>
        IF chan["ipc"] # <<>> THEN ENABLED IpcStep
        ELSE \A k \in 4..Len(sentLog) :
                sentLog[k].meta.target_pid = Some(Pid["ipc"]) /\ sentLog[k].meta.proc_name # None
                => /\ sentLog[k].meta.pid[1] \in DOMAIN procs
                   /\ sentLog[k].meta.proc_name[1] \in DOMAIN proc_names

\* The message the Ipc is about to read from the Leader is malformed for the
\* place the Ipc is at: not a command where a command is due, not a write
\* control end where the response channel is due.
Malformed ==
    /\ recv_msg(chan["leader"], fdtab["ipc"]).err = ""
    /\ \/ pc["ipc"] = "steady" /\ KindOf(Arriving("leader")) # "Command"
       \/ pc["ipc"] = "await_ctl" /\ KindOf(Arriving("leader")) # "WriteCtlEnd"

\* C32: in its loop the Ipc survives a malformed message from the Leader: the
\* step that reads it leaves the Ipc at the top of its loop, ready for the
\* next message.
C32_MalformedMessageSkipped ==
    [][(IpcReads("leader") /\ Malformed) => pc'["ipc"] = "steady"]_vars


(* ---------------------------------------------------------------------- *)
(* Properties of the Supervisor (SpecSupLive)                              *)
(* ---------------------------------------------------------------------- *)

\* C19: with max-starts = N, a number from 0 to 255 or 1 when the flag is
\* absent, and a payload that exits each time, the Supervisor starts the
\* payload N times, each start after the exit of the one before, and then
\* terminates.
C19_StartsPayloadMaxStartsTimes ==
    /\ [](sup.st \in {"loop", "done"} =>
            /\ sup.max_restarts = value_of_max_starts(sup.arg)
            /\ sup.max_restarts \in 0..U8Max
            /\ sup.starts <= sup.max_restarts
            /\ sup.payload = "running" => sup.starts = sup.i + 1
            /\ sup.payload = "none" => sup.starts = sup.i
            /\ sup.st = "done" => (sup.starts = sup.max_restarts /\ sup.payload = "none"))
    /\ (sup.st = "args" /\ sup.exe = "exits" /\ value_of_max_starts(sup.arg) \in 0..U8Max)
           ~> (sup.st = "done")

\* The Supervisor has returned after the second of two payloads exited with
\* a failure status.
C19_Witness ==
    /\ sup.st = "done"
    /\ sup.arg = Some(2)
    /\ sup.starts = 2
    /\ sup.status = Some(1)

(* ---------------------------------------------------------------------- *)
(* The Leader (procs/leader.rs)                                             *)
(* ---------------------------------------------------------------------- *)

\* How many Leaders are started one after the other, how many connections
\* one accepts, how many commands are put in the channel.
MaxLeaders == 2

MaxConns == 2

MaxCommands == 3

\* channel::<Command>(3): the capacity of the dispatcher's channel.
ChannelCapacity == 3

\* The command lines a Leader is started with: the one new_process builds,
\* and one that names a control-out.
LeaderArgvs == {new_process_args(LeaderTable.fds[1]), Argv(None, Some(LeaderTable.fds[1]))}

\* The commands that may be put in the channel.
LeaderCommands ==
    {Body("List", "-", "-", 0), Body("Start", "Name", "a", 0), Body("Stop", "Pid", "-", 3)}

\* UnixListener::bind(path): bind(2) creates the path, and fails with
\* EADDRINUSE when it exists.
UnixListener_bind(exists) == [ok |-> ~exists, exists |-> TRUE]

\* Leader::run from its start to its accept loop: the control-out opened
\* from the arguments (a panic without it), the listener bound to
\* SOCKET_CTL_PATH (run returns the Err of a failed bind), the channel
\* made, handle_commands spawned.
Leader_run ==
    /\ lead.st \in {"none", "ended"}
    /\ Len(lead.bound) < MaxLeaders
    /\ \E argv \in LeaderArgvs : \E b \in {UnixListener_bind(lead.path)} :
        IF get_ctl_out("leader", argv) = None
        THEN lead' = [lead EXCEPT !.st = "ended", !.argv = argv,
                                  !.bound = Append(@, [ctl |-> FALSE, ok |-> FALSE])]
        ELSE lead' = [lead EXCEPT !.st = IF b.ok THEN "listening" ELSE "ended",
                                  !.argv = argv,
                                  !.path = b.exists,
                                  !.bound = Append(@, [ctl |-> TRUE, ok |-> b.ok]),
                                  !.conns = 0,
                                  !.rx = <<>>]
    /\ UNCHANGED <<fdtab, ends, last, chan, msgs, held, sentLog, recvLog, pc, kids, reg,
                   exits, sup, logs, cli>>

\* One turn of the accept loop: handle_stream(stream, tx.clone()) is
\* spawned; its body is empty, the stream and the sender are dropped.
LeaderAccept ==
    /\ lead.st = "listening"
    /\ lead.conns < MaxConns
    /\ lead' = [lead EXCEPT !.conns = @ + 1]
    /\ UNCHANGED <<fdtab, ends, last, chan, msgs, held, sentLog, recvLog, pc, kids, reg,
                   exits, sup, logs, cli>>

\* tx.send(command).await by a holder of a sender of the channel: the
\* command is queued when the channel is not full.
TxSend ==
    /\ lead.st = "listening"
    /\ Len(lead.rx) < ChannelCapacity
    /\ Len(lead.handed) + Len(lead.rx) < MaxCommands
    /\ \E command \in LeaderCommands : lead' = [lead EXCEPT !.rx = Append(@, command)]
    /\ UNCHANGED <<fdtab, ends, last, chan, msgs, held, sentLog, recvLog, pc, kids, reg,
                   exits, sup, logs, cli>>

\* One turn of the loop of handle_commands: rx.recv() hands the next
\* command over; the body of the loop is a comment, nothing is sent on
\* control.
handle_commands ==
    /\ lead.st = "listening"
    /\ lead.rx # <<>>
    /\ lead' = [lead EXCEPT !.rx = Tail(@), !.handed = Append(@, Head(lead.rx))]
    /\ UNCHANGED <<fdtab, ends, last, chan, msgs, held, sentLog, recvLog, pc, kids, reg,
                   exits, sup, logs, cli>>

\* The Leader ends, killed when init tears the tree down: its tasks and
\* its channel go with it, the path of the socket stays.
LeaderKilled ==
    /\ lead.st = "listening"
    /\ lead' = [lead EXCEPT !.st = "ended", !.rx = <<>>]
    /\ UNCHANGED <<fdtab, ends, last, chan, msgs, held, sentLog, recvLog, pc, kids, reg,
                   exits, sup, logs, cli>>

\* No Leader yet; SOCKET_CTL_PATH may have been left by an earlier run.
InitLead ==
    /\ fdtab = [p \in TreeProcs |-> IF p = "leader" THEN LeaderTable.t ELSE NoTable]
    /\ ends = [i \in EndIds |-> NoEnd]
    /\ last = NoOp
    /\ chan = [c \in {"leader"} |-> <<>>]
    /\ msgs = [p \in TreeProcs |-> NoMsg]
    /\ held = {AsyncEnd("leader", "AsyncCtlEnd", "Write", LeaderTable.fds[1])}
    /\ sentLog = <<>>
    /\ recvLog = <<>>
    /\ pc = [p \in TreeProcs |-> "none"]
    /\ kids = [r \in TreeProcs \ {Parent} |-> NoKid]
    /\ reg = NoReg
    /\ exits = <<>>
    /\ sup = NoSup
    /\ logs = NoLogs
    /\ \E stale \in BOOLEAN : lead = [NoLead EXCEPT !.path = stale]
    /\ cli = NoCli

NextLead ==
    \/ Leader_run
    \/ LeaderAccept
    \/ TxSend
    \/ handle_commands
    \/ LeaderKilled

SpecLead == InitLead /\ [][NextLead]_vars

(* ---------------------------------------------------------------------- *)
(* One envelope of a command kind sent and received (msg.rs)                *)
(* ---------------------------------------------------------------------- *)

\* The metadata an envelope may carry: a name or none, a pid or none, a
\* target or none.
EnvelopeMetas ==
    {Metadata(pn, pid, Pid[Parent], tgt) :
        pn \in {None, Some("a"), Some("long")},
        pid \in {None, Some(Pid["leader"])},
        tgt \in {None, Some(Pid[Peer])}}

\* Every command with a short name, a long name and a pid as target, and
\* list items with a short and a long name.
EnvelopeKinds ==
    {Command_to_message_kind("Command", Body("List", "-", "-", 0))}
    \cup {Command_to_message_kind("Command", Body(c, "Name", n, 0)) :
              c \in {"Init", "Start", "Restart", "Stop", "Status"}, n \in {"a", "long"}}
    \cup {Command_to_message_kind("Command", Body(c, "Pid", "-", Pid["ipc"])) :
              c \in {"Init", "Start", "Restart", "Stop", "Status"}}
    \cup {Command_to_message_kind("CommandResponse", Body("ListItem", "-", n, Pid["ipc"])) :
              n \in {"a", "long"}}

\* The sender holds a message prepared from one envelope, and the write end
\* of the receiver's control-in; the receiver holds the read end.
InitCodec ==
    /\ fdtab = [p \in TreeProcs |->
                   IF p = Parent THEN LogSenderTable.t
                   ELSE IF p = Peer THEN LoggerTable.t
                   ELSE NoTable]
    /\ ends = [i \in EndIds |-> NoEnd]
    /\ last = NoOp
    /\ chan = [c \in {Peer} |-> <<>>]
    /\ \E meta \in EnvelopeMetas : \E kf \in EnvelopeKinds :
          msgs = [p \in TreeProcs |->
                     IF p = Parent THEN prepare_message(meta, kf) ELSE NoMsg]
    /\ held = {AsyncEnd(Peer, "AsyncCtlEnd", "Read", LoggerTable.fds[1]),
               AsyncEnd(Parent, "AsyncCtlEnd", "Write", LogSenderTable.fds[1])}
    /\ sentLog = <<>>
    /\ recvLog = <<>>
    /\ pc = [p \in TreeProcs |-> IF p \in {Parent, Peer} THEN "run" ELSE "none"]
    /\ kids = [r \in TreeProcs \ {Parent} |-> NoKid]
    /\ reg = NoReg
    /\ exits = <<>>
    /\ sup = NoSup
    /\ logs = NoLogs
    /\ lead = NoLead
    /\ cli = NoCli

NextCodec ==
    \/ SendMsg
    \/ RecvMsg

SpecCodec == InitCodec /\ [][NextCodec]_vars

(* ---------------------------------------------------------------------- *)
(* main: the command line, the dispatch, the exit code (bin/vermilion.rs)   *)
(* ---------------------------------------------------------------------- *)

\* The first words main is invoked with: init, the five role names, and a
\* word that names nothing.
SubCommandWords == {"init", "logger", "leader", "launcher", "ipc", "supervisor", "bogus"}

\* The flags a command line may carry after the sub-command.
FlagNames == {"control-in", "control-out", "executable"}

\* The sub-commands main registers with .subcommand(..).
Registered == {"init", "leader", "logger", "ipc", "supervisor"}

\* The flags the sub-command of a name accepts: ctl_in_opts and
\* ctl_out_opts of the role's Process impl for the roles, --executable for
\* the Supervisor, none for init.
AcceptedFlags(name) ==
    IF name = "supervisor" THEN {"executable"}
    ELSE IF name = "init" THEN {}
    ELSE (IF HasControlIn[name] THEN {"control-in"} ELSE {})
         \cup (IF HasControlOut[name] THEN {"control-out"} ELSE {})

\* The flags marked required(true).
RequiredFlags(name) == IF name = "supervisor" THEN {"executable"} ELSE {}

\* The names the match of main has a run arm for.
MatchArms == {"init", "leader", "logger", "launcher", "ipc", "supervisor"}

\* The exit code of a process whose main returned r, and of one that
\* panicked.
main_exit_code(r) == IF r = "Ok" THEN 0 ELSE IF r = "Err" THEN 1 ELSE 101

\* App::get_matches: the sub-command matched; a word that is no registered
\* sub-command, a flag the sub-command does not define or a required flag
\* that is missing is an error, which clap prints before it exits with 1.
get_matches(sub, flags) ==
    IF sub = None THEN [ok |-> flags = {}, matched |-> None]
    ELSE IF sub[1] \notin Registered THEN [ok |-> FALSE, matched |-> None]
    ELSE [ok |-> flags \subseteq AcceptedFlags(sub[1])
                 /\ RequiredFlags(sub[1]) \subseteq flags,
          matched |-> sub]

\* How the run of a role, or init, may end: returning Ok, returning Err, or
\* by a panic.
RunOutcomes ==
    [init |-> {"Err"}, logger |-> {"panic"}, leader |-> {"Err", "panic"},
     launcher |-> {"Ok"}, ipc |-> {"Err", "panic"}, supervisor |-> {"Ok", "panic"}]

\* main up to the match: the App built, get_matches.
MainParse ==
    /\ cli.st = "start"
    /\ \E m \in {get_matches(cli.sub, cli.flags)} :
         IF m.ok
         THEN cli' = [cli EXCEPT !.st = "matched", !.matched = m.matched]
         ELSE cli' = [cli EXCEPT !.st = "exited", !.via = "clap error", !.code = Some(1)]
    /\ UNCHANGED <<fdtab, ends, last, chan, msgs, held, sentLog, recvLog, pc, kids, reg,
                   exits, sup, logs, lead>>

\* The match of main on args.subcommand(): a run arm, "command required"
\* and exit(1) without a sub-command, "unexpected argument" and exit(2) for
\* any other name.
MainMatch ==
    /\ cli.st = "matched"
    /\ IF cli.matched = None
       THEN cli' = [cli EXCEPT !.st = "exited", !.via = "command required",
                               !.code = Some(1)]
       ELSE IF cli.matched[1] \in MatchArms
       THEN cli' = [cli EXCEPT !.st = "running", !.ran = cli.matched]
       ELSE cli' = [cli EXCEPT !.st = "exited", !.via = "unexpected argument",
                               !.code = Some(2)]
    /\ UNCHANGED <<fdtab, ends, last, chan, msgs, held, sentLog, recvLog, pc, kids, reg,
                   exits, sup, logs, lead>>

\* The run of the role, or init, ends.
RoleEnds ==
    /\ cli.st = "running"
    /\ \E o \in RunOutcomes[cli.ran[1]] : cli' = [cli EXCEPT !.st = "ended", !.outcome = o]
    /\ UNCHANGED <<fdtab, ends, last, chan, msgs, held, sentLog, recvLog, pc, kids, reg,
                   exits, sup, logs, lead>>

\* What run(p, args) returns when p.run(args) returned r: the result is
\* discarded and Err("Process unexpected ended") returned.
run(r) == "Err"

\* main returns what init or run returned, which sets the exit code; a
\* panic ends the process without returning.
MainReturns ==
    /\ cli.st = "ended"
    /\ cli' = [cli EXCEPT
                  !.st = "exited",
                  !.via = IF cli.outcome = "panic" THEN "panic" ELSE "main returned",
                  !.code = Some(main_exit_code(
                               IF cli.outcome = "panic" THEN "panic"
                               ELSE IF cli.ran[1] = "init" THEN cli.outcome
                               ELSE run(cli.outcome)))]
    /\ UNCHANGED <<fdtab, ends, last, chan, msgs, held, sentLog, recvLog, pc, kids, reg,
                   exits, sup, logs, lead>>

\* The binary started with a command line.
InitMain ==
    /\ fdtab = [p \in TreeProcs |-> IF p = Parent THEN StdTable ELSE NoTable]
    /\ ends = [i \in EndIds |-> NoEnd]
    /\ last = NoOp
    /\ chan = [c \in {"logger", "ipc"} |-> <<>>]
    /\ msgs = [p \in TreeProcs |-> NoMsg]
    /\ held = {}
    /\ sentLog = <<>>
    /\ recvLog = <<>>
    /\ pc = [p \in TreeProcs |-> "none"]
    /\ kids = [r \in TreeProcs \ {Parent} |-> NoKid]
    /\ reg = NoReg
    /\ exits = <<>>
    /\ sup = NoSup
    /\ logs = NoLogs
    /\ lead = NoLead
    /\ \E sub \in {None} \cup {Some(w) : w \in SubCommandWords} :
       \E flags \in SUBSET FlagNames :
          cli = [NoCli EXCEPT !.sub = sub, !.flags = flags, !.st = "start"]

NextMain ==
    \/ MainParse
    \/ MainMatch
    \/ RoleEnds
    \/ MainReturns

SpecMain == InitMain /\ [][NextMain]_vars

(* ---------------------------------------------------------------------- *)
(* Properties of the Logger and its tasks                                   *)
(* ---------------------------------------------------------------------- *)

\* The role whose output pipe ch carries.
WriterOf(ch) == CHOOSE r \in DOMAIN LogPipes : LogPipes[r] = ch

\* The metadata of the message that handed pipe ch to the Logger.
SentMeta(ch) ==
    sentLog[CHOOSE k \in 1..Len(sentLog) :
                /\ KindOf(sentLog[k]) = "ReadPipeEnd"
                /\ sentLog[k].meta.proc_name \in
                       IF WriterOf(ch) = "leader" THEN {None, Some("leader")}
                       ELSE {Some(WriterOf(ch))}].meta

\* The lines of the pipe a task has printed, and its shutdown lines.
Printed(i) == SelectSeq(logs.out[i], LAMBDA o : o.fmt = "LOG:{}[{}]: {}")

Shutdowns(i) == SelectSeq(logs.out[i], LAMBDA o : o.fmt = "{} LOGGING SHUTDOWN")

\* C22: for every read pipe end the Logger received, the task spawned for it
\* has printed the lines read from that pipe so far, in the order they were
\* written, each as LOG:<role>[<pid>]: <line> with the role and pid of the
\* message's metadata ("unknown" and -1 when absent); it prints <pid> LOGGING
\* SHUTDOWN exactly once, as its last line, when it has read every line and
\* the pipe is at end-of-file, and has then terminated; before that it has
\* printed no shutdown line.
C22_LinesForwardedInOrder ==
    \A i \in 1..Len(logs.tasks) :
        \E task \in {logs.tasks[i]} : \E p \in {logs.pipes[logs.tasks[i].ch]} :
        \E meta \in {SentMeta(logs.tasks[i].ch)} :
        \E role \in {IF meta.proc_name = None THEN "unknown" ELSE meta.proc_name[1]} :
        \E pid \in {IF meta.pid = None THEN -1 ELSE meta.pid[1]} :
            /\ Len(Printed(i)) = p.rd
            /\ \A k \in 1..Len(Printed(i)) :
                  Printed(i)[k] = [fmt |-> "LOG:{}[{}]: {}", name |-> role, pid |-> pid,
                                   line |-> p.written[k]]
            /\ IF task.st = "done"
               THEN /\ Len(Shutdowns(i)) = 1
                    /\ logs.out[i][Len(logs.out[i])] =
                           [fmt |-> "{} LOGGING SHUTDOWN", name |-> "-", pid |-> pid,
                            line |-> "-"]
                    /\ p.rd = Len(p.written)
                    /\ ~p.wopen
               ELSE Len(Shutdowns(i)) = 0

C22_Witness ==
    \E i \in 1..Len(logs.tasks) :
        /\ logs.tasks[i].st = "done"
        /\ logs.tasks[i].name = "unknown"
        /\ Len(Printed(i)) = MaxLines
        /\ Len(Shutdowns(i)) = 1

\* C23: no step ends a running Logger: not a receive that fails, not a
\* message that carries no read pipe end, not a failed read of a task.
C23_LoggerSurvivesFailures == [][pc["logger"] = "run" => pc'["logger"] = "run"]_vars

\* C29: a receive of the Logger that finds its control-in closed by every
\* writer ends the receive loop: the Logger is not running after it.
C29_ClosedControlEndsLoop == logs.eofs >= 1 => pc["logger"] # "run"

\* C30: a task that has had a read fail with another error than WouldBlock
\* has terminated, and a WouldBlock alone has not terminated any task.
C30_ReadErrorEndsTask ==
    \A i \in 1..Len(logs.tasks) :
        /\ logs.tasks[i].others >= 1 => logs.tasks[i].st = "done"
        /\ (logs.tasks[i].errs >= 1 /\ logs.tasks[i].others = 0 /\ Len(Printed(i)) = 0
               /\ logs.pipes[logs.tasks[i].ch].wopen)
              => logs.tasks[i].st = "reading"

\* C39: the step in which a forwarding task of the Logger ends closes the
\* pipe descriptor the task took over from the message.
C39_TaskEndClosesPipe ==
    [][\A i \in 1..Len(logs.tasks) :
          (logs.tasks[i].st = "reading" /\ logs'.tasks[i].st = "done")
          => fdtab'["logger"][logs.tasks[i].fd] = Closed]_vars

(* ---------------------------------------------------------------------- *)
(* Properties of the Leader                                                 *)
(* ---------------------------------------------------------------------- *)

\* C24: every Leader started with a control-out binds SOCKET_CTL_PATH,
\* whether the path was left by an earlier run or by an earlier Leader.
C24_LeaderBinds == \A k \in 1..Len(lead.bound) : lead.bound[k].ctl => lead.bound[k].ok

\* The commands sent on the Leader's control-out, in order.
Forwarded ==
    With(SelectSeq(sentLog, LAMBDA d : KindOf(d) = "Command"), LAMBDA q :
         [k \in 1..Len(q) |-> q[k].kind[1].body])

\* C25: the commands sent on control-out are the commands the dispatcher
\* received, one message each, in the order it received them.
C25_CommandsForwarded == Forwarded = lead.handed

(* ---------------------------------------------------------------------- *)
(* Properties of one envelope sent and received                             *)
(* ---------------------------------------------------------------------- *)

\* C26: for every envelope of a command kind that was sent, decoding its
\* encoding gives the envelope back, and the receive that follows the send
\* succeeds and returns the envelope that was sent.
C26_RoundTrip ==
    /\ \A i \in 1..Len(sentLog) :
           deserialize(serialize(sentLog[i])) = [ok |-> TRUE, data |-> sentLog[i]]
    /\ last.op \in {"recv", "recv_err"} => (last.op = "recv" /\ recvLog = sentLog)

(* ---------------------------------------------------------------------- *)
(* Properties of main                                                       *)
(* ---------------------------------------------------------------------- *)

\* The five role names.
RoleNames == {"logger", "leader", "launcher", "ipc", "supervisor"}

\* C27: the process exits with 1 when no sub-command is given, with 2 when
\* the sub-command is none of init and the five roles, with 0 when the run of
\* a role returned Ok, and with a non-zero code when init or a role failed.
C27_ExitCodes ==
    cli.st = "exited" =>
        /\ (cli.sub = None /\ cli.flags = {}) => cli.code = Some(1)
        /\ (cli.sub # None /\ cli.sub[1] \notin RoleNames \cup {"init"}) => cli.code = Some(2)
        /\ cli.outcome = "Ok" => cli.code = Some(0)
        /\ cli.outcome \in {"Err", "panic"} => cli.code # Some(0)

\* C28: the binary invoked with one of the five role names, and with flags
\* that role defines, enters the run of that role: it does not end before,
\* and the run entered is that role's.
C28_RoleNameEntersRun ==
    \A role \in RoleNames :
        (/\ cli.sub = Some(role)
         /\ cli.flags \subseteq AcceptedFlags(role)
         /\ RequiredFlags(role) \subseteq cli.flags
         /\ cli.st \notin {"start", "matched"})
            => cli.ran = Some(role)

====
